---- MODULE Spec2Model ----
(***************************************************************************)
(* GLTCH Cloud API (src/api): the chat turn, its quota gate, the session   *)
(* store and the account endpoints, as a state machine.                    *)
(*                                                                         *)
(* The handlers are asyncio coroutines on one event loop: the code between *)
(* two awaits that really suspend runs atomically.  Auth and request       *)
(* validation run before a handler body; of the handler bodies only chat   *)
(* suspends, at `await route_chat(...)` (the vendor HTTP call), so a chat  *)
(* turn is two steps, ChatStart (main.py 334-419) and ChatFinish (main.py  *)
(* 421-448), and turns interleave between them.  Every other handler is    *)
(* one step.                                                               *)
(*                                                                         *)
(* Left out of the records: email, callsign, title and created_at (written, *)
(* never read by a handler modelled here).  The clock behind a message's   *)
(* timestamp is a counter: a turn's two appends read it one after the      *)
(* other, and it has moved on when the next turn stores its messages.      *)
(***************************************************************************)
EXTENDS Integers, Sequences, FiniteSets, TLC

\* ---------------------------------------------------------------- bounds

\* Days the clock can advance past day 0.
MaxDay == 1

\* Chat turns that may be suspended at the vendor call at the same time.
MaxInFlight == 2

\* Stored messages a long run may reach (the FREE cap is 25 turns a day).
MaxStored == 56

\* Stored messages a run of the general specification may reach.
MaxStoredSmall == 4

\* Stored messages a run of the context specification may reach.
MaxStoredCtx == 32

\* Stored messages a run of the usage specification may reach.
MaxStoredUsage == 6

\* Token counts up to this one have their cost computed once.
MaxTokens == 8

\* ------------------------------------------------- values of the program

\* A slot typed Optional[str], and what dict.get returns: None is the empty
\* sequence and the str s is <<s>>, so that no str a client sends, "None"
\* and "" included, is equal to None.
None == <<>>

\* The str s in an optional slot.
Some(s) == <<s>>

\* The step of no authenticated caller: the clock's tick, a webhook, the
\* process's start, a pure function called on its own.
Nobody == ""

\* models.py SubscriptionTier
FREE == "free"

PRO == "pro"

SubscriptionTier == {FREE, PRO}

\* models.py LLMProvider
OPENAI == "openai"

ANTHROPIC == "anthropic"

GEMINI == "gemini"

GROK == "grok"

LLMProvider == {OPENAI, ANTHROPIC, GEMINI, GROK}

\* models.py KeyMode
MANAGED == "managed"

BYOK == "byok"

KeyMode == {MANAGED, BYOK}

\* personality.py PersonalityMode
OPERATOR == "operator"

PersonalityMode == {"operator", "cyberpunk", "loyal", "unhinged"}

\* main.py, line 327: @limiter.limit("60/minute")
CHAT_RATE_LIMIT == 60

\* llm.py FREE_TIER_MODEL
FREE_TIER_MODEL == "gpt-3.5-turbo"

\* llm.py DEFAULT_MODELS
DEFAULT_MODELS ==
  [p \in LLMProvider |->
     CASE p = OPENAI -> "gpt-4o"
       [] p = ANTHROPIC -> "claude-3-5-sonnet-20241022"
       [] p = GEMINI -> "gemini-1.5-pro"
       [] p = GROK -> "grok-2-latest"]

\* Python truthiness of an optional string: None and "" are falsy.
Truthy(v) == v # None /\ v # Some("")

\* `a if a is not None else b`: the empty string is taken as given.
Or_NoneOnly(a, b) == IF a # None THEN a[1] ELSE b

\* Python `a or b`, for an optional a and a str b.
Or(a, b) == IF Truthy(a) THEN a[1] ELSE b

\* ------------------------------------------------------------------ text

\* A Python str is written here in ASCII.  A character below U+0080 other
\* than the backslash stands for itself; every other character c is the six
\* characters \uXXXX, XXXX being ord(c) in lower-case hexadecimal, or the
\* ten characters \UXXXXXXXX when ord(c) is above 0xffff; the backslash is
\* \u005c.  So "hi\\u00a0" is the two letters and a no-break space, a str
\* of three characters.

\* The places of a text where a character written as an escape starts.
Escapes(text) == {i \in 1..Len(text) : SubSeq(text, i, i) = "\\"}

\* len(text): the characters of the str, an escape counting as one.
StrLen(text) ==
  LET escapes == Escapes(text)
      long == {i \in escapes : SubSeq(text, i + 1, i + 1) = "U"}
  IN Len(text) - 5 * Cardinality(escapes \ long) - 9 * Cardinality(long)

\* What str.strip() removes from both ends, the 29 characters c with
\* c.isspace(): tab, line feed, vertical tab (0x0b), form feed, carriage
\* return, the separators 0x1c to 0x1f, the space, next line (U+0085), the
\* no-break space (U+00A0), the ogham space mark (U+1680), the spaces
\* U+2000 to U+200A, the line and paragraph separators (U+2028, U+2029),
\* the narrow no-break space (U+202F), the medium mathematical space
\* (U+205F) and the ideographic space (U+3000).
Whitespace ==
  {"\t", "\n", "", "\f", "\r", "", "", "", "", " ",
   "\\u0085", "\\u00a0", "\\u1680", "\\u2000", "\\u2001",
   "\\u2002", "\\u2003", "\\u2004", "\\u2005", "\\u2006",
   "\\u2007", "\\u2008", "\\u2009", "\\u200a", "\\u2028",
   "\\u2029", "\\u202f", "\\u205f", "\\u3000"}

\* The first character of a text that is not empty, as it is written.
FirstChar(v) ==
  IF SubSeq(v, 1, 1) # "\\" THEN SubSeq(v, 1, 1)
  ELSE IF SubSeq(v, 2, 2) = "U" THEN SubSeq(v, 1, 10)
  ELSE SubSeq(v, 1, 6)

\* The last character of a text that is not empty, as it is written.
LastChar(v) ==
  LET n == Len(v)
  IN IF n >= 10 /\ SubSeq(v, n - 9, n - 8) = "\\U" THEN SubSeq(v, n - 9, n)
     ELSE IF n >= 6 /\ SubSeq(v, n - 5, n - 4) = "\\u" THEN SubSeq(v, n - 5, n)
     ELSE SubSeq(v, n, n)

\* str.lstrip()
RECURSIVE lstrip(_)
lstrip(v) ==
  IF v = "" THEN v
  ELSE IF FirstChar(v) \in Whitespace
  THEN lstrip(SubSeq(v, Len(FirstChar(v)) + 1, Len(v))) ELSE v

\* str.rstrip()
RECURSIVE rstrip(_)
rstrip(v) ==
  IF v = "" THEN v
  ELSE IF LastChar(v) \in Whitespace
  THEN rstrip(SubSeq(v, 1, Len(v) - Len(LastChar(v)))) ELSE v

\* str.strip()
strip(v) == rstrip(lstrip(v))

\* ------------------------------------------------------------ identities

\* User ids the auth dependency can produce.
Users == {"u1", "u2"}

\* Session ids a client may put in a request before any session exists.
ClientSids == {"s1"}

\* Values str(uuid.uuid4()) can return.
Uuids == {"g1", "g2"}

\* The Stripe customer id create_customer returns for a user's account.
CustomerOf(user_id) == "cus_" \o user_id

\* -------------------------------------------------------------- variables

VARIABLES
  users_db,      \* main.py users_db: user id -> user record
  users_keys,    \* list(users_db): the keys of users_db in the order of their insertion
  sessions_db,   \* main.py sessions_db, in insertion order: <<[id, user_id]>>
  messages_db,   \* main.py messages_db: session id -> <<[role, content, timestamp]>>
  disk,          \* data/*.json as persist_data last wrote them
  today,         \* date.today()
  clock,         \* datetime.utcnow()
  turns,         \* chat coroutines: request slot -> idle, or the locals held across the await
  resp,          \* what the step just taken answered (or the call it issued)
  plain_providers, \* users whose "provider" is a plain str, as json.load gives it, not an LLMProvider member
  appended_by,   \* history: session id -> the user whose turn appended each message
  ok_since_reset,\* history: user -> turns that succeeded since the user's last day reset
  ok_tokens,     \* history: user -> tokens of all the turns that succeeded
  rolled_from    \* history: user -> the count the user's last day reset discarded

vars == <<users_db, users_keys, sessions_db, messages_db, disk, today, clock, turns, resp,
          plain_providers, appended_by, ok_since_reset, ok_tokens, rolled_from>>

stores == <<users_db, sessions_db, messages_db>>

history == <<appended_by, ok_since_reset, ok_tokens, rolled_from>>

Requests == 1..MaxInFlight

Idle == [pc |-> "idle"]

\* --------------------------------------------------------------- helpers

\* `session_id in sessions_db`
HasSession(sdb, session_id) == \E i \in 1..Len(sdb) : sdb[i].id = session_id

\* `sessions_db[session_id]`
Session(sdb, session_id) == sdb[CHOOSE i \in 1..Len(sdb) : sdb[i].id = session_id]

SessionIdsOf(sdb) == {sdb[i].id : i \in 1..Len(sdb)}

\* seq[:n] for seq[-n:]: the oldest messages instead of the newest.
FirstN(seq, n) == IF Len(seq) <= n THEN seq ELSE SubSeq(seq, 1, n)

\* Python seq[-n:]
LastN(seq, n) == IF Len(seq) <= n THEN seq ELSE SubSeq(seq, Len(seq) - n + 1, Len(seq))

\* Messages stored in all sessions together.
RECURSIVE SumLen(_, _)
SumLen(mdb, ids) ==
  IF ids = {} THEN 0
  ELSE LET s == CHOOSE x \in ids : TRUE IN Len(mdb[s]) + SumLen(mdb, ids \ {s})

Stored == SumLen(messages_db, DOMAIN messages_db)

InFlight == Cardinality({r \in Requests : turns[r].pc # "idle"})

\* The keys of a dict after a step that inserted at most one key: a new
\* key goes last, a key that is assigned again keeps its place.
Inserted(keys, udb) ==
  IF \A u \in DOMAIN udb : \E i \in DOMAIN keys : keys[i] = u THEN keys
  ELSE Append(keys, CHOOSE u \in DOMAIN udb : \A i \in DOMAIN keys : keys[i] # u)

\* The record register, get_me and chat create for an unseen user.
NewUser(user_id, provider, key_mode, personality_mode) ==
  [id |-> user_id,
   tier |-> FREE,
   provider |-> provider,
   key_mode |-> key_mode,
   personality_mode |-> personality_mode,
   messages_today |-> 0,
   tokens_this_month |-> 0,
   last_message_date |-> None,
   stripe_customer_id |-> None,
   stripe_subscription_id |-> None,
   openai_key |-> None,
   anthropic_key |-> None,
   google_key |-> None,
   xai_key |-> None]

\* main.py persist_data: the three stores as written to data/*.json.
persist_data(udb, sdb, mdb) == [users |-> udb, sessions |-> sdb, messages |-> mdb]

\* billing.py get_tier_limits
get_tier_limits(tier) ==
  IF tier = PRO
  THEN [messages_per_day |-> -1,
        providers |-> <<"openai", "anthropic", "gemini", "grok">>,
        features |-> <<"browser", "telegram", "all_modes">>]
  ELSE [messages_per_day |-> 25,
        providers |-> <<"openai">>,
        features |-> <<"basic_modes">>]

\* ---------------------------------------------------------------- billing

\* billing.py PROVIDER_PRICING, each price per 1K tokens in millionths of a
\* dollar (0.015 -> 15000, 0.000075 -> 75).
PROVIDER_PRICING ==
  [p \in LLMProvider |->
     CASE p = OPENAI ->
            ("gpt-4o" :> [input |-> 15000, output |-> 45000])
            @@ ("gpt-4o-mini" :> [input |-> 500, output |-> 1500])
            @@ ("gpt-3.5-turbo" :> [input |-> 500, output |-> 1500])
       [] p = ANTHROPIC ->
            ("claude-3-5-sonnet" :> [input |-> 3000, output |-> 15000])
            @@ ("claude-3-haiku" :> [input |-> 250, output |-> 1250])
       [] p = GEMINI ->
            ("gemini-1.5-pro" :> [input |-> 1250, output |-> 5000])
            @@ ("gemini-1.5-flash" :> [input |-> 75, output |-> 300])
       [] p = GROK ->
            ("grok-2" :> [input |-> 2000, output |-> 10000])]

\* billing.py calculate_cost, line 38: the fallback prices.
DefaultPricing == [input |-> 10000, output |-> 30000]

\* An unknown model of a known provider priced as a model of that provider.
PricingFor_AnyModelOfProvider(provider, model) ==
  IF provider \in DOMAIN PROVIDER_PRICING
  THEN IF model \in DOMAIN PROVIDER_PRICING[provider]
       THEN PROVIDER_PRICING[provider][model]
       ELSE PROVIDER_PRICING[provider][CHOOSE m \in DOMAIN PROVIDER_PRICING[provider] : TRUE]
  ELSE DefaultPricing

\* Every pair priced with the fallback prices.
PricingFor_AlwaysDefault(provider, model) == DefaultPricing

\* `PROVIDER_PRICING.get(provider, {}).get(model)`, then the fallback.
PricingFor(provider, model) ==
  IF provider \in DOMAIN PROVIDER_PRICING /\ model \in DOMAIN PROVIDER_PRICING[provider]
  THEN PROVIDER_PRICING[provider][model]
  ELSE DefaultPricing

\* ---- the binary floating point of the arithmetic in calculate_cost ----
\* A natural number of any size: its digits to the base 2^15, lowest first,
\* the highest not 0; the empty sequence is 0.
Base == 2^15

RECURSIVE BigTrim(_)
BigTrim(x) ==
  IF x = <<>> THEN x
  ELSE IF x[Len(x)] = 0 THEN BigTrim(SubSeq(x, 1, Len(x) - 1)) ELSE x

RECURSIVE BigOfInt(_)
BigOfInt(n) == IF n = 0 THEN <<>> ELSE <<n % Base>> \o BigOfInt(n \div Base)

RECURSIVE BigToInt(_)
BigToInt(x) == IF x = <<>> THEN 0 ELSE x[1] + Base * BigToInt(Tail(x))

BigDigit(x, i) == IF i <= Len(x) THEN x[i] ELSE 0

RECURSIVE BigAddFrom(_, _, _, _)
BigAddFrom(x, y, i, carry) ==
  IF i > Len(x) /\ i > Len(y)
  THEN IF carry = 0 THEN <<>> ELSE <<carry>>
  ELSE LET sum == BigDigit(x, i) + BigDigit(y, i) + carry
       IN <<sum % Base>> \o BigAddFrom(x, y, i + 1, sum \div Base)

BigAdd(x, y) == BigAddFrom(x, y, 1, 0)

RECURSIVE BigMulSmallFrom(_, _, _, _)
BigMulSmallFrom(x, k, i, carry) ==
  IF i > Len(x)
  THEN IF carry = 0 THEN <<>> ELSE <<carry>>
  ELSE LET prod == x[i] * k + carry
       IN <<prod % Base>> \o BigMulSmallFrom(x, k, i + 1, prod \div Base)

\* x * k for 0 <= k < Base.
BigMulSmall(x, k) == IF k = 0 THEN <<>> ELSE BigMulSmallFrom(x, k, 1, 0)

\* x * Base^n.
BigShiftDigits(x, n) == IF x = <<>> THEN x ELSE [i \in 1..n |-> 0] \o x

RECURSIVE BigMulFrom(_, _, _)
BigMulFrom(x, y, i) ==
  IF i > Len(y) THEN <<>>
  ELSE BigAdd(BigShiftDigits(BigMulSmall(x, y[i]), i - 1), BigMulFrom(x, y, i + 1))

BigMul(x, y) == BigMulFrom(x, y, 1)

RECURSIVE BigDivSmallFrom(_, _, _, _)
BigDivSmallFrom(x, d, i, r) ==
  IF i = 0 THEN [q |-> <<>>, r |-> r]
  ELSE LET cur == r * Base + x[i]
           rest == BigDivSmallFrom(x, d, i - 1, cur % d)
       IN [q |-> rest.q \o <<cur \div d>>, r |-> rest.r]

\* The quotient and the remainder of x by d, for 0 < d < Base.
BigDivSmall(x, d) ==
  LET res == BigDivSmallFrom(x, d, Len(x), 0)
  IN [q |-> BigTrim(res.q), r |-> res.r]

RECURSIVE BitLen(_)
BitLen(n) == IF n = 0 THEN 0 ELSE 1 + BitLen(n \div 2)

\* The number of binary digits of x.
BigBitLen(x) == IF x = <<>> THEN 0 ELSE 15 * (Len(x) - 1) + BitLen(x[Len(x)])

\* x * 2^k.
BigShl(x, k) == BigShiftDigits(BigMulSmall(x, 2^(k % 15)), k \div 15)

\* floor(x / 2^k).
BigShr(x, k) ==
  LET n == k \div 15
  IN IF n >= Len(x) THEN <<>>
     ELSE BigDivSmall(SubSeq(x, n + 1, Len(x)), 2^(k % 15)).q

\* (x + f) / 2^k to the nearest integer, a tie to the even one, for k >= 1;
\* `inexact` tells that a fraction 0 < f < 1 was cut off x before.
BigRoundShr(x, k, inexact) ==
  LET y == BigShr(x, k - 1)
      half == BigDigit(y, 1) % 2 = 1
      below == inexact \/ BigShl(y, k - 1) # x
      q == BigShr(y, 1)
      odd == BigDigit(q, 1) % 2 = 1
  IN IF half /\ (below \/ odd) THEN BigAdd(q, <<1>>) ELSE q

\* A double: the value m * 2^e with m of at most 53 binary digits (2^53
\* itself after a carry).  FloatRound rounds (m + f) * 2^e to a double.
FloatRound(m, e, inexact) ==
  LET len == BigBitLen(m)
  IN IF len <= 53 THEN [m |-> m, e |-> e]
     ELSE [m |-> BigRoundShr(m, len - 53, inexact), e |-> e + len - 53]

RECURSIVE BigDivAll(_, _, _, _)
BigDivAll(x, divisors, i, inexact) ==
  IF i > Len(divisors) THEN [q |-> x, inexact |-> inexact]
  ELSE LET res == BigDivSmall(x, divisors[i])
       IN BigDivAll(res.q, divisors, i + 1, inexact \/ res.r # 0)

\* The double nearest to n / (divisors[1] * ... * divisors[k]) for an integer
\* n >= 0 and divisors below 2^15: Python's `n / 1000` on integers, and the
\* value of a decimal literal such as 0.0005 = 500 / (1000 * 1000).
FloatRatio(n, divisors) ==
  IF n = 0 THEN [m |-> <<>>, e |-> 0]
  ELSE LET res == BigDivAll(BigShl(BigOfInt(n), 90), divisors, 1, FALSE)
       IN FloatRound(res.q, -90, res.inexact)

\* x * y on doubles.
FloatMul(x, y) == FloatRound(BigMul(x.m, y.m), x.e + y.e, FALSE)

\* x + y on doubles.
FloatAdd(x, y) ==
  IF x.m = <<>> THEN y
  ELSE IF y.m = <<>> THEN x
  ELSE LET e == IF x.e < y.e THEN x.e ELSE y.e
       IN FloatRound(BigAdd(BigShl(x.m, x.e - e), BigShl(y.m, y.e - e)), e, FALSE)

\* round(x, 6) of a double x, in millionths: the multiple of 0.000001
\* nearest to the exact value of x (Python rounds the exact binary value).
Round6(x) ==
  LET scaled == BigMulSmall(BigMulSmall(x.m, 1000), 1000)
  IN IF x.e >= 0 THEN BigToInt(BigShl(scaled, x.e))
     ELSE BigToInt(BigRoundShr(scaled, -x.e, FALSE))

\* The input tokens billed at the output price and the output tokens at the
\* input price.
CostInFloats_PricesSwapped(pricing, input_tokens, output_tokens) ==
  LET input_cost == FloatMul(FloatRatio(input_tokens, <<1000>>),
                             FloatRatio(pricing.output, <<1000, 1000>>))
      output_cost == FloatMul(FloatRatio(output_tokens, <<1000>>),
                              FloatRatio(pricing.input, <<1000, 1000>>))
  IN Round6(FloatAdd(input_cost, output_cost))

\* billing.py calculate_cost, lines 40-42, in millionths of a dollar.  The
\* prices of the table are millionths of a dollar per 1K tokens: as doubles,
\* p / 10^6.
CostInFloats(pricing, input_tokens, output_tokens) ==
  LET input_cost == FloatMul(FloatRatio(input_tokens, <<1000>>),
                             FloatRatio(pricing.input, <<1000, 1000>>))
      output_cost == FloatMul(FloatRatio(output_tokens, <<1000>>),
                              FloatRatio(pricing.output, <<1000, 1000>>))
  IN Round6(FloatAdd(input_cost, output_cost))

\* Every pricing calculate_cost can work with.
Pricings ==
  {DefaultPricing}
  \cup UNION {{PROVIDER_PRICING[p][m] : m \in DOMAIN PROVIDER_PRICING[p]} :
                p \in DOMAIN PROVIDER_PRICING}

\* The costs of the token counts up to MaxTokens, computed once.
KnownCosts ==
  [pricing \in Pricings |->
     [input_tokens \in 0..MaxTokens |->
        [output_tokens \in 0..MaxTokens |->
           CostInFloats(pricing, input_tokens, output_tokens)]]]

\* billing.py calculate_cost, in millionths of a dollar.
calculate_cost(provider, model, input_tokens, output_tokens) ==
  LET pricing == PricingFor(provider, model)
  IN IF input_tokens \in 0..MaxTokens /\ output_tokens \in 0..MaxTokens
     THEN KnownCosts[pricing][input_tokens][output_tokens]
     ELSE CostInFloats(pricing, input_tokens, output_tokens)

\* ------------------------------------------------------------ personality

\* personality.py PERSONALITY_PROMPTS: the template of a mode, by name.
PERSONALITY_PROMPTS == [m \in PersonalityMode |-> "You are GLTCH: " \o m]

\* personality.py get_system_prompt, lines 99-107: the fixed suffix.
cloud_context == " CONTEXT: GLTCH Cloud"

\* personality.py get_system_prompt: the template, then the fixed suffix.
get_system_prompt(mode) ==
  LET base_prompt == IF mode \in DOMAIN PERSONALITY_PROMPTS
                     THEN PERSONALITY_PROMPTS[mode]
                     ELSE PERSONALITY_PROMPTS[OPERATOR]
  IN base_prompt \o cloud_context

\* The stored mode ignored: every turn gets the operator prompt.
EffectiveMode_AlwaysOperator(user) == OPERATOR

\* main.py chat, lines 405-409: the stored mode, or operator when it is
\* missing or no member of the enumeration.
EffectiveMode(user) ==
  LET personality_mode == IF user.personality_mode = None THEN "operator"
                          ELSE user.personality_mode[1]
  IN IF personality_mode \in PersonalityMode THEN personality_mode ELSE OPERATOR

\* -------------------------------------------------------------------- llm

\* config.py Settings: the operator's own key for a vendor.
SettingsKey(provider) == "settings_" \o provider

\* llm.py route_chat: the default prompt used when none is given.
default_system == "You are GLTCH, a cloud-native AI agent"

\* The characters of all the messages' contents together.
RECURSIVE TotalChars(_)
TotalChars(messages) ==
  IF messages = <<>> THEN 0
  ELSE StrLen(Head(messages).content) + TotalChars(Tail(messages))

\* The estimate taken once, of the characters of all messages together.
SumQuarter_OfTotal(messages) == TotalChars(messages) \div 4

\* llm.py chat_gemini, line 140: sum(len(m["content"]) // 4 for m in messages)
RECURSIVE SumQuarter(_)
SumQuarter(messages) ==
  IF messages = <<>> THEN 0
  ELSE (StrLen(Head(messages).content) \div 4) + SumQuarter(Tail(messages))

\* llm.py chat_openai / chat_grok: the request they post.
OpenAIStyleRequest(vendor, own_key, messages, api_key, model, system_prompt) ==
  [vendor |-> vendor,
   key |-> Or(api_key, own_key),
   model |-> Or(model, DEFAULT_MODELS[vendor]),
   system |-> None,
   messages |-> IF Truthy(system_prompt)
                THEN <<[role |-> "system", content |-> system_prompt[1]]>> \o messages
                ELSE messages]

\* llm.py chat_anthropic, line 86, and chat_gemini, line 126: their own
\* default prompt.
adapter_system == "You are GLTCH, an AI agent with attitude."

\* llm.py chat_anthropic: the request it posts.
AnthropicRequest(messages, api_key, model, system_prompt) ==
  [vendor |-> ANTHROPIC,
   key |-> Or(api_key, SettingsKey(ANTHROPIC)),
   model |-> Or(model, DEFAULT_MODELS[ANTHROPIC]),
   system |-> Some(Or(system_prompt, adapter_system)),
   messages |-> messages]

\* The Gemini request built the OpenAI way: roles as they come, and the
\* system prompt as the first message.
GeminiRequest_OpenAIStyle(messages, api_key, model, system_prompt) ==
  [vendor |-> GEMINI,
   key |-> Or(api_key, SettingsKey(GEMINI)),
   model |-> Or(model, DEFAULT_MODELS[GEMINI]),
   system |-> None,
   messages |-> <<[role |-> "system", text |-> Or(system_prompt, adapter_system)]>>
                \o [i \in 1..Len(messages) |->
                      [role |-> messages[i].role, text |-> messages[i].content]]]

\* llm.py chat_gemini: the request it posts.
GeminiRequest(messages, api_key, model, system_prompt) ==
  [vendor |-> GEMINI,
   key |-> Or(api_key, SettingsKey(GEMINI)),
   model |-> Or(model, DEFAULT_MODELS[GEMINI]),
   system |-> Some(Or(system_prompt, adapter_system)),
   messages |-> [i \in 1..Len(messages) |->
                   [role |-> IF messages[i].role = "user" THEN "user" ELSE "model",
                    text |-> messages[i].content]]]

\* The router that knows one adapter only.
Handler_AlwaysOpenAI(provider) == OPENAI

\* llm.py route_chat, lines 204-211: `router.get(provider, chat_openai)`.
Handler(provider) ==
  IF provider \in LLMProvider THEN provider ELSE OPENAI

\* llm.py route_chat: the one request a turn sends, with the handler that
\* sent it and the arguments the handler was given.
route_chat(provider, messages, api_key, model, system_prompt) ==
  LET system == Or(system_prompt, default_system)
      handler == Handler(provider)
  IN [handler |-> handler,
      messages |-> messages,
      api_key |-> api_key,
      model |-> model,
      system_prompt |-> system,
      request |->
        CASE handler = OPENAI ->
               OpenAIStyleRequest(OPENAI, SettingsKey(OPENAI), messages, api_key, model,
                                  Some(system))
          [] handler = GROK ->
               OpenAIStyleRequest(GROK, SettingsKey(GROK), messages, api_key, model,
                                  Some(system))
          [] handler = ANTHROPIC -> AnthropicRequest(messages, api_key, model, Some(system))
          [] handler = GEMINI -> GeminiRequest(messages, api_key, model, Some(system))]

\* A vendor's error body returned as the assistant's reply.
HandlerResult_ErrorAsContent(call, vendor) ==
  [content |-> IF vendor.status # 200 THEN vendor.text ELSE vendor.content,
   input_tokens |-> IF vendor.status # 200 THEN 0 ELSE vendor.input_tokens,
   output_tokens |-> IF vendor.status # 200 THEN 0 ELSE vendor.output_tokens,
   model |-> call.request.model]

\* llm.py chat_openai .. chat_grok after the post returns: the error
\* dictionary for a status other than 200, else the normalized response.
HandlerResult(call, vendor) ==
  IF vendor.status # 200
  THEN [error |-> vendor.text, status |-> vendor.status]
  ELSE [content |-> vendor.content,
        input_tokens |-> IF call.handler = GEMINI THEN SumQuarter(call.messages)
                         ELSE vendor.input_tokens,
        output_tokens |-> IF call.handler = GEMINI THEN StrLen(vendor.content) \div 4
                          ELSE vendor.output_tokens,
        model |-> call.request.model]

\* A vendor answer with status 200.
VendorOk(content, input_tokens, output_tokens) ==
  [status |-> 200, content |-> content,
   input_tokens |-> input_tokens, output_tokens |-> output_tokens]

\* A vendor answer with another status.
VendorError(status, text) == [status |-> status, text |-> text]

\* ------------------------------------------------------------------- chat

\* The answer of one step: the operation, the caller, the HTTP status (0
\* when the step answers nothing: a chat turn suspending at its vendor call,
\* the clock) and the body.
Response(op, user_id, status, body) ==
  [op |-> op, user |-> user_id, status |-> status, body |-> body]

\* The session entry owned by nobody.
NewSession_Unowned(session_id, user_id) == [id |-> session_id, user_id |-> ""]

\* main.py chat, lines 370-375: the entry of a new session.
NewSession(session_id, user_id) == [id |-> session_id, user_id |-> user_id]

\* main.py chat, lines 337-349: get or create the user.
GetOrCreateUser(udb, user_id) ==
  IF user_id \in DOMAIN udb THEN udb
  ELSE udb @@ (user_id :> NewUser(user_id, OPENAI, MANAGED, None))

\* date.isoformat() of day d, counted from the day the process started.
isoformat(d) == "2026-01-" \o ToString(d + 10)

\* The day reset that stores the new date and keeps yesterday's count.
DayReset_KeepCount(user, day) ==
  IF user.last_message_date # Some(day)
  THEN [user EXCEPT !.last_message_date = Some(day)]
  ELSE user

\* The day reset that starts the month's tokens anew as well.
DayReset_AlsoTokens(user, day) ==
  IF user.last_message_date # Some(day)
  THEN [user EXCEPT !.messages_today = 0, !.tokens_this_month = 0,
                    !.last_message_date = Some(day)]
  ELSE user

\* main.py chat, lines 356-359: the day reset; `day` is today's isoformat().
DayReset(user, day) ==
  IF user.last_message_date # Some(day)
  THEN [user EXCEPT !.messages_today = 0, !.last_message_date = Some(day)]
  ELSE user

\* The cap comparison with > for >=: one message too many passes.
OverLimit_StrictlyOver(limits, user) ==
  limits.messages_per_day # -1 /\ user.messages_today > limits.messages_per_day

\* The cap comparison without the sentinel: -1 is a cap like any other.
OverLimit_NoSentinel(limits, user) ==
  user.messages_today >= limits.messages_per_day

\* main.py chat, line 361: the cap comparison.
OverLimit(limits, user) ==
  limits.messages_per_day # -1 /\ user.messages_today >= limits.messages_per_day

\* main.py chat, lines 379-383: the messages sent to the vendor.
LlmMessages(stored, content) ==
  LET recent == LastN(stored, 10)
  IN [i \in 1..Len(recent) |-> [role |-> recent[i].role, content |-> recent[i].content]]
     \o <<[role |-> "user", content |-> content]>>

\* The key lookup that takes whichever key the user has stored, in the
\* order of the map.
KeyMap_AnyStoredKey(user, provider) ==
  IF user.openai_key # None THEN user.openai_key
  ELSE IF user.anthropic_key # None THEN user.anthropic_key
  ELSE IF user.google_key # None THEN user.google_key
  ELSE user.xai_key

\* main.py chat, lines 396-402: key_map.get(provider)
KeyMap(user, provider) ==
  CASE provider = OPENAI -> user.openai_key
    [] provider = ANTHROPIC -> user.anthropic_key
    [] provider = GEMINI -> user.google_key
    [] provider = GROK -> user.xai_key
    [] OTHER -> None

\* The selection without the free-tier override: the stored preference and
\* key mode decide for every tier.
Selection_ByStoredPreference(user, tier) ==
  IF user.key_mode = BYOK
  THEN [provider |-> user.provider, model |-> None,
        api_key |-> KeyMap(user, user.provider)]
  ELSE [provider |-> user.provider, model |-> None, api_key |-> None]

\* main.py chat, lines 386-402: provider, model and credential of the call.
Selection(user, tier) ==
  IF tier = FREE
  THEN [provider |-> OPENAI, model |-> Some(FREE_TIER_MODEL), api_key |-> None]
  ELSE IF user.key_mode = BYOK
  THEN [provider |-> user.provider, model |-> None,
        api_key |-> KeyMap(user, user.provider)]
  ELSE [provider |-> user.provider, model |-> None, api_key |-> None]

\* The length check off by one: 10000 characters are too long.
validate_content_TooLongAt10000(v) ==
  IF v = "" \/ strip(v) = ""
  THEN [ok |-> FALSE, error |-> "Message cannot be empty"]
  ELSE IF StrLen(v) >= 10000
  THEN [ok |-> FALSE, error |-> "Message too long (max 10000 characters)"]
  ELSE [ok |-> TRUE, value |-> strip(v)]

\* main.py ChatMessage.validate_content, lines 158-165: the stripped content,
\* or the error FastAPI answers with 422 before chat() is entered.
validate_content(v) ==
  IF v = "" \/ strip(v) = ""
  THEN [ok |-> FALSE, error |-> "Message cannot be empty"]
  ELSE IF StrLen(v) > 10000
  THEN [ok |-> FALSE, error |-> "Message too long (max 10000 characters)"]
  ELSE [ok |-> TRUE, value |-> strip(v)]

\* main.py chat, lines 326-419: the request validated, then the turn up to
\* its vendor call.  The quota rejection ends it; otherwise the coroutine
\* suspends in slot r, holding its locals and the call it issued (`rollover`
\* is history: whether this turn's start reset the day counter).  The answer
\* also tells the content the request came with.  `session_in` is the
\* request's optional session_id; `uuid` is what str(uuid.uuid4()) returns
\* when it is called, which it is for a request that names no session.
\* `hits` is what the limiter of line 327 has counted for the request's
\* remote address in the running minute: with 60 counted it refuses the
\* request, once the request is validated and before chat() is entered.
ChatStart(r, user_id, session_in, raw_content, uuid, hits) ==
  /\ turns[r].pc = "idle"
  /\ LET checked == validate_content(raw_content)
         content == checked.value
         users1 == GetOrCreateUser(users_db, user_id)
         tier == users1[user_id].tier
         limits == get_tier_limits(tier)
         user == DayReset(users1[user_id], isoformat(today))
         users2 == [users1 EXCEPT ![user_id] = user]
         was_reset == users1[user_id].last_message_date # Some(isoformat(today))
         session_id == Or(session_in, uuid)
         is_new == ~HasSession(sessions_db, session_id)
         stored == IF is_new THEN <<>> ELSE messages_db[session_id]
         llm_messages == LlmMessages(stored, content)
         sel == Selection(user, tier)
         system_prompt == get_system_prompt(EffectiveMode(user))
     IN IF ~checked.ok
        THEN /\ resp' = Response("chat", user_id, 422, [detail |-> checked.error])
                          @@ [raw_content |-> raw_content]
             /\ UNCHANGED <<users_db, users_keys, sessions_db, messages_db, disk, today, clock,
                            turns, plain_providers, history>>
        ELSE IF hits >= CHAT_RATE_LIMIT
        THEN /\ resp' = Response("chat", user_id, 429,
                                 [error |-> "Rate limit exceeded: 60 per 1 minute"])
                          @@ [raw_content |-> raw_content]
             /\ UNCHANGED <<users_db, users_keys, sessions_db, messages_db, disk, today, clock,
                            turns, plain_providers, history>>
        ELSE
             /\ users_db' = users2
             /\ users_keys' = Inserted(users_keys, users2)
             /\ ok_since_reset' = IF was_reset THEN [ok_since_reset EXCEPT ![user_id] = 0]
                                  ELSE ok_since_reset
             /\ rolled_from' = IF was_reset
                               THEN [rolled_from EXCEPT ![user_id] = users1[user_id].messages_today]
                               ELSE rolled_from
             /\ IF OverLimit(limits, user)
                THEN /\ resp' = Response("chat", user_id, 429,
                                         [detail |-> "Daily message limit reached",
                                          cap |-> limits.messages_per_day])
                                  @@ [raw_content |-> raw_content]
                     /\ UNCHANGED <<sessions_db, messages_db, disk, today, clock, turns,
                                    plain_providers, appended_by, ok_tokens>>
                ELSE /\ sessions_db' = IF is_new
                                       THEN Append(sessions_db, NewSession(session_id, user_id))
                                       ELSE sessions_db
                     /\ messages_db' = IF is_new THEN messages_db @@ (session_id :> <<>>)
                                       ELSE messages_db
                     /\ appended_by' = IF is_new THEN appended_by @@ (session_id :> <<>>)
                                       ELSE appended_by
                     /\ turns' = [turns EXCEPT ![r] =
                                    [pc |-> "await",
                                     user_id |-> user_id,
                                     tier |-> tier,
                                     message_session_id |-> session_in,
                                     session_id |-> session_id,
                                     content |-> content,
                                     provider |-> sel.provider,
                                     provider_is_member |->
                                       tier = FREE \/ user_id \notin plain_providers,
                                     rollover |-> was_reset,
                                     call |-> route_chat(sel.provider, llm_messages,
                                                         sel.api_key, sel.model,
                                                         Some(system_prompt))]]
                     /\ resp' = Response("chat", user_id, 0, [slot |-> r])
                                  @@ [raw_content |-> raw_content]
                     /\ UNCHANGED <<disk, today, clock, plain_providers, ok_tokens>>

\* The appends made to the truncated context instead of the stored list.
StoreMessages_OntoContext(stored, content, reply, now, later) ==
  LastN(stored, 10) \o <<[role |-> "user", content |-> content, timestamp |-> now],
                         [role |-> "assistant", content |-> reply, timestamp |-> later]>>

\* The two appends in the other order: the reply, then the user message.
StoreMessages_ReplyFirst(stored, content, reply, now, later) ==
  stored \o <<[role |-> "assistant", content |-> reply, timestamp |-> now],
              [role |-> "user", content |-> content, timestamp |-> later]>>

\* main.py chat, lines 425-426: the two appends, each stamped with the
\* datetime.utcnow() it reads, `now` and then `later`.
StoreMessages(stored, content, reply, now, later) ==
  stored \o <<[role |-> "user", content |-> content, timestamp |-> now],
              [role |-> "assistant", content |-> reply, timestamp |-> later]>>

\* The usage update that counts the input tokens only.
UpdateUsage_InputOnly(user, result) ==
  [user EXCEPT !.messages_today = @ + 1,
               !.tokens_this_month = @ + result.input_tokens]

\* main.py chat, lines 429-430: the usage update.
UpdateUsage(user, result) ==
  [user EXCEPT !.messages_today = @ + 1,
               !.tokens_this_month = @ + result.input_tokens + result.output_tokens]

\* main.py chat, lines 421-448: the turn after the vendor call returned
\* (the answer also tells which vendor response the step consumed).  The
\* appends (425-426) and the usage update (429-430) come first; `provider.value`
\* (434) then raises AttributeError when the local `provider` is a plain str,
\* and the framework answers 500 with persist_data (440) not reached.
\* `later` is what the second datetime.utcnow() (426) reads: the time of the
\* first (425) or a later one.
ChatFinish(r, vendor, later) ==
  /\ turns[r].pc = "await"
  /\ later >= clock
  /\ LET t == turns[r]
         result == HandlerResult(t.call, vendor)
     IN /\ turns' = [turns EXCEPT ![r] = Idle]
        /\ IF "error" \in DOMAIN result
           THEN /\ resp' = Response("chat", t.user_id, 500, [detail |-> result.error])
                             @@ [vendor |-> vendor]
                /\ UNCHANGED <<users_db, users_keys, sessions_db, messages_db, disk, today, clock, plain_providers, history>>
           ELSE LET messages1 == [messages_db EXCEPT ![t.session_id] =
                                    StoreMessages(@, t.content, result.content, clock, later)]
                    users1 == [users_db EXCEPT ![t.user_id] = UpdateUsage(@, result)]
                    cost == calculate_cost(t.provider, result.model,
                                           result.input_tokens, result.output_tokens)
                IN /\ messages_db' = messages1
                   /\ users_db' = users1
                   /\ users_keys' = Inserted(users_keys, users1)
                   /\ appended_by' = [appended_by EXCEPT ![t.session_id] =
                                        @ \o <<t.user_id, t.user_id>>]
                   /\ clock' = later + 1
                   /\ IF ~t.provider_is_member
                      THEN /\ resp' = Response("chat", t.user_id, 500,
                                               [detail |-> "Internal Server Error"])
                                        @@ [vendor |-> vendor]
                           /\ UNCHANGED <<disk, ok_since_reset, ok_tokens>>
                      ELSE /\ disk' = persist_data(users1, sessions_db, messages1)
                           /\ ok_since_reset' = [ok_since_reset EXCEPT ![t.user_id] = @ + 1]
                           /\ ok_tokens' = [ok_tokens EXCEPT ![t.user_id] =
                                              @ + result.input_tokens + result.output_tokens]
                           /\ resp' = Response("chat", t.user_id, 200,
                                               [content |-> result.content,
                                                session_id |-> t.session_id,
                                                input_tokens |-> result.input_tokens,
                                                output_tokens |-> result.output_tokens,
                                                cost_usd |-> cost])
                                        @@ [vendor |-> vendor]
                   /\ UNCHANGED <<sessions_db, today, plain_providers, rolled_from>>

\* main.py chat, line 413: the awaited call raises (the 60 s timeout, a
\* network error, a body that is not the expected JSON); the coroutine ends
\* there and the framework answers 500.
ChatRaise(r) ==
  /\ turns[r].pc = "await"
  /\ turns' = [turns EXCEPT ![r] = Idle]
  /\ resp' = Response("chat", turns[r].user_id, 500, [detail |-> "Internal Server Error"])
  /\ UNCHANGED <<users_db, users_keys, sessions_db, messages_db, disk, today, clock, plain_providers, history>>

\* date.today() moves on to the next day.
Tick ==
  /\ today < MaxDay
  /\ today' = today + 1
  /\ resp' = Response("tick", Nobody, 0, [day |-> today + 1])
  /\ UNCHANGED <<users_db, users_keys, sessions_db, messages_db, disk, clock, turns, plain_providers, history>>

\* --------------------------------------------------------------- accounts

\* The registration that does not look for an existing record: it writes a
\* new one every time.
Register_Overwrites(user_id, provider, key_mode, customer) ==
  LET user0 == NewUser(user_id, provider, key_mode, None)
      user == IF Truthy(customer) THEN [user0 EXCEPT !.stripe_customer_id = customer]
              ELSE user0
      users1 == [u \in DOMAIN users_db \cup {user_id} |->
                   IF u = user_id THEN user ELSE users_db[u]]
  IN /\ users_db' = users1
     /\ users_keys' = Inserted(users_keys, users1)
     /\ disk' = persist_data(users1, sessions_db, messages_db)
     /\ resp' = Response("register", user_id, 200,
                         [message |-> "User registered", user |-> user])
     /\ UNCHANGED <<sessions_db, messages_db, today, clock, turns, plain_providers, history>>

\* main.py register, lines 178-208.  `customer` is what create_customer
\* returned: the new Stripe customer id, or None when Stripe failed.
Register(user_id, provider, key_mode, customer) ==
  IF user_id \in DOMAIN users_db
  THEN /\ resp' = Response("register", user_id, 200,
                           [message |-> "User already exists", user |-> users_db[user_id]])
       /\ UNCHANGED <<users_db, users_keys, sessions_db, messages_db, disk, today, clock, turns, plain_providers, history>>
  ELSE LET user0 == NewUser(user_id, provider, key_mode, None)
           user == IF Truthy(customer) THEN [user0 EXCEPT !.stripe_customer_id = customer]
                   ELSE user0
           users1 == users_db @@ (user_id :> user)
       IN /\ users_db' = users1
          /\ users_keys' = Inserted(users_keys, users1)
          /\ disk' = persist_data(users1, sessions_db, messages_db)
          /\ resp' = Response("register", user_id, 200,
                              [message |-> "User registered", user |-> user])
          /\ UNCHANGED <<sessions_db, messages_db, today, clock, turns, plain_providers, history>>

\* main.py get_me, lines 211-237.  is_admin (line 29) reads
\* settings.admin_emails, which config.py Settings does not define, so the
\* handler raises after the auto-creation and the framework answers 500.
GetMe(user_id) ==
  LET users1 == IF user_id \in DOMAIN users_db THEN users_db
                ELSE users_db @@ (user_id :> NewUser(user_id, OPENAI, MANAGED, Some("operator")))
  IN /\ users_db' = users1
     /\ users_keys' = Inserted(users_keys, users1)
     /\ disk' = IF user_id \in DOMAIN users_db THEN disk
                ELSE persist_data(users1, sessions_db, messages_db)
     /\ resp' = Response("get_me", user_id, 500, [detail |-> "Internal Server Error"])
     /\ UNCHANGED <<sessions_db, messages_db, today, clock, turns, plain_providers, history>>

\* main.py UserSettings.validate_api_key, lines 143-151: a key that is
\* given has 10 to 200 characters, and is stripped.
validate_api_key(v) ==
  IF v = None THEN [ok |-> TRUE, value |-> v]
  ELSE LET n == StrLen(v[1])
       IN IF n < 10 \/ n > 200
          THEN [ok |-> FALSE, error |-> "Invalid API key length"]
          ELSE [ok |-> TRUE, value |-> Some(strip(v[1]))]

\* main.py UserSettings, lines 135-151: the settings as the handler gets
\* them, or the error FastAPI answers with 422 before update_settings() is
\* entered.
validate_settings(st) ==
  LET openai_key == validate_api_key(st.openai_key)
      anthropic_key == validate_api_key(st.anthropic_key)
      google_key == validate_api_key(st.google_key)
      xai_key == validate_api_key(st.xai_key)
  IN IF openai_key.ok /\ anthropic_key.ok /\ google_key.ok /\ xai_key.ok
     THEN [ok |-> TRUE,
           value |-> [st EXCEPT !.openai_key = openai_key.value,
                                !.anthropic_key = anthropic_key.value,
                                !.google_key = google_key.value,
                                !.xai_key = xai_key.value]]
     ELSE [ok |-> FALSE, error |-> "Invalid API key length"]

\* The update that stores the request as it is: a field that is not given
\* clears the stored one.
ApplySettings_Overwrite(user, st) ==
  [user EXCEPT
     !.provider = IF Truthy(st.provider) THEN st.provider[1] ELSE @,
     !.key_mode = IF Truthy(st.key_mode) THEN st.key_mode[1] ELSE @,
     !.openai_key = st.openai_key,
     !.anthropic_key = st.anthropic_key,
     !.google_key = st.google_key,
     !.xai_key = st.xai_key]

\* main.py update_settings, lines 253-264: each given (truthy) field is stored.
ApplySettings(user, st) ==
  [user EXCEPT
     !.provider = IF Truthy(st.provider) THEN st.provider[1] ELSE @,
     !.key_mode = IF Truthy(st.key_mode) THEN st.key_mode[1] ELSE @,
     !.openai_key = IF Truthy(st.openai_key) THEN st.openai_key ELSE @,
     !.anthropic_key = IF Truthy(st.anthropic_key) THEN st.anthropic_key ELSE @,
     !.google_key = IF Truthy(st.google_key) THEN st.google_key ELSE @,
     !.xai_key = IF Truthy(st.xai_key) THEN st.xai_key ELSE @]

\* main.py update_settings, lines 240-267, after the validation of the
\* request `raw`.  A given provider is stored as the LLMProvider member
\* pydantic made of it (the answer also tells the settings the request came
\* with).
UpdateSettings(user_id, raw) ==
  LET checked == validate_settings(raw)
      st == checked.value
  IN IF ~checked.ok
     THEN /\ resp' = Response("update_settings", user_id, 422, [detail |-> checked.error])
                       @@ [user_settings |-> raw]
          /\ UNCHANGED <<users_db, users_keys, sessions_db, messages_db, disk, today, clock, turns, plain_providers, history>>
     ELSE IF user_id \notin DOMAIN users_db
     THEN /\ resp' = Response("update_settings", user_id, 404, [detail |-> "User not found"])
                       @@ [user_settings |-> raw]
          /\ UNCHANGED <<users_db, users_keys, sessions_db, messages_db, disk, today, clock, turns, plain_providers, history>>
     ELSE LET user == ApplySettings(users_db[user_id], st)
              users1 == [users_db EXCEPT ![user_id] = user]
          IN /\ users_db' = users1
             /\ users_keys' = Inserted(users_keys, users1)
             /\ disk' = persist_data(users1, sessions_db, messages_db)
             /\ plain_providers' = IF Truthy(st.provider) THEN plain_providers \ {user_id}
                                    ELSE plain_providers
             /\ resp' = Response("update_settings", user_id, 200,
                                 [message |-> "Settings updated", user |-> user])
                          @@ [user_settings |-> raw]
             /\ UNCHANGED <<sessions_db, messages_db, today, clock, turns, history>>

\* The mode stored before it is validated.
SetPersonalityMode_StoreThenValidate(user_id, mode) ==
  LET answer(status, body) ==
        Response("set_personality_mode", user_id, status, body) @@ [mode |-> mode]
  IN IF user_id \notin DOMAIN users_db
     THEN /\ resp' = answer(404, [detail |-> "User not found"])
          /\ UNCHANGED <<users_db, users_keys, sessions_db, messages_db, disk, today, clock, turns, plain_providers, history>>
     ELSE LET users1 == [users_db EXCEPT ![user_id].personality_mode = Some(mode)]
          IN /\ users_db' = users1
             /\ users_keys' = Inserted(users_keys, users1)
             /\ disk' = persist_data(users1, sessions_db, messages_db)
             /\ resp' = answer(IF mode \in PersonalityMode THEN 200 ELSE 400, [mode |-> mode])
             /\ UNCHANGED <<sessions_db, messages_db, today, clock, turns, plain_providers, history>>

\* main.py set_personality_mode, lines 278-298.
SetPersonalityMode(user_id, mode) ==
  LET answer(status, body) ==
        Response("set_personality_mode", user_id, status, body) @@ [mode |-> mode]
  IN IF user_id \notin DOMAIN users_db
     THEN /\ resp' = answer(404, [detail |-> "User not found"])
          /\ UNCHANGED <<users_db, users_keys, sessions_db, messages_db, disk, today, clock, turns, plain_providers, history>>
     ELSE IF mode \notin PersonalityMode
     THEN /\ resp' = answer(400, [detail |-> "Invalid mode"])
          /\ UNCHANGED <<users_db, users_keys, sessions_db, messages_db, disk, today, clock, turns, plain_providers, history>>
     ELSE LET users1 == [users_db EXCEPT ![user_id].personality_mode = Some(mode)]
          IN /\ users_db' = users1
             /\ users_keys' = Inserted(users_keys, users1)
             /\ disk' = persist_data(users1, sessions_db, messages_db)
             /\ resp' = answer(200, [mode |-> mode])
             /\ UNCHANGED <<sessions_db, messages_db, today, clock, turns, plain_providers, history>>

\* --------------------------------------------------------------- sessions

\* The listing without its filter: every session in the store.
UserSessions_All(sdb, user_id) == sdb

\* main.py get_sessions, line 455: the caller's sessions, in store order.
UserSessions(sdb, user_id) == SelectSeq(sdb, LAMBDA s : s.user_id = user_id)

\* main.py get_sessions, lines 451-456.
GetSessions(user_id) ==
  /\ resp' = Response("get_sessions", user_id, 200,
                      [sessions |-> UserSessions(sessions_db, user_id)])
  /\ UNCHANGED <<users_db, users_keys, sessions_db, messages_db, disk, today, clock, turns, plain_providers, history>>

\* The lookup without the ownership check.
SessionMessages_NoOwnerCheck(sdb, mdb, session_id, user_id) ==
  IF ~HasSession(sdb, session_id)
  THEN [status |-> 404, body |-> [detail |-> "Session not found"]]
  ELSE [status |-> 200,
        body |-> [messages |-> IF session_id \in DOMAIN mdb THEN mdb[session_id] ELSE <<>>]]

\* main.py get_session_messages, lines 459-472: the status and the body.
SessionMessages(sdb, mdb, session_id, user_id) ==
  IF ~HasSession(sdb, session_id)
  THEN [status |-> 404, body |-> [detail |-> "Session not found"]]
  ELSE IF Session(sdb, session_id).user_id # user_id
  THEN [status |-> 403, body |-> [detail |-> "Access denied"]]
  ELSE [status |-> 200,
        body |-> [messages |-> IF session_id \in DOMAIN mdb THEN mdb[session_id] ELSE <<>>]]

\* main.py get_session_messages, lines 459-472.
GetSessionMessages(session_id, user_id) ==
  /\ LET answer == SessionMessages(sessions_db, messages_db, session_id, user_id)
     IN resp' = [op |-> "get_session_messages", user |-> user_id,
                 status |-> answer.status, body |-> answer.body,
                 session_id |-> session_id]
  /\ UNCHANGED <<users_db, users_keys, sessions_db, messages_db, disk, today, clock, turns, plain_providers, history>>

\* ---------------------------------------------------------------- billing

\* main.py get_usage, lines 477-488.
GetUsage(user_id) ==
  /\ resp' = Response("get_usage", user_id, 200,
                      IF user_id \in DOMAIN users_db
                      THEN [tier |-> users_db[user_id].tier,
                            messages_today |-> users_db[user_id].messages_today,
                            tokens_this_month |-> users_db[user_id].tokens_this_month,
                            limits |-> get_tier_limits(users_db[user_id].tier)]
                      ELSE [tier |-> FREE, messages_today |-> 0, tokens_this_month |-> 0,
                            limits |-> get_tier_limits(FREE)])
  /\ UNCHANGED <<users_db, users_keys, sessions_db, messages_db, disk, today, clock, turns, plain_providers, history>>

\* main.py upgrade_to_pro, lines 491-514.  `customer` is what create_customer
\* returns when it is called and `checkout_url` what create_checkout_session
\* returns: the id and the URL Stripe gave, or None when Stripe failed.
UpgradeToPro(user_id, customer, checkout_url) ==
  IF user_id \notin DOMAIN users_db
  THEN /\ resp' = Response("upgrade_to_pro", user_id, 404, [detail |-> "User not found"])
       /\ UNCHANGED <<users_db, users_keys, sessions_db, messages_db, disk, today, clock, turns, plain_providers, history>>
  ELSE IF users_db[user_id].tier = PRO
  THEN /\ resp' = Response("upgrade_to_pro", user_id, 200, [message |-> "Already on Pro plan"])
       /\ UNCHANGED <<users_db, users_keys, sessions_db, messages_db, disk, today, clock, turns, plain_providers, history>>
  ELSE /\ users_db' = IF Truthy(users_db[user_id].stripe_customer_id) THEN users_db
                      ELSE [users_db EXCEPT ![user_id].stripe_customer_id = customer]
       /\ resp' = Response("upgrade_to_pro", user_id, 200, [checkout_url |-> checkout_url])
       /\ UNCHANGED <<users_keys, sessions_db, messages_db, disk, today, clock, turns,
                      plain_providers, history>>

\* The loop that matches every user.
CustomerUsers_Everyone(udb, keys, customer_id) == DOMAIN udb

\* main.py stripe_webhook, lines 538-542 and 549-553: the user the loop
\* changes, the first in the order of users_db.values() whose
\* stripe_customer_id equals the event's customer (None equals None), as a
\* set: empty when the loop ends without a match.
CustomerUsers(udb, keys, customer_id) ==
  LET matches == {i \in DOMAIN keys : udb[keys[i]].stripe_customer_id = customer_id}
  IN {keys[i] : i \in {j \in matches : \A k \in matches : j <= k}}

\* main.py stripe_webhook, lines 517-555, for an event whose signature
\* verified: `customer_id` is the subscription's "customer", `subscription_id`
\* its "id" (the answer also tells the event's customer).
StripeWebhook(type, customer_id, subscription_id) ==
  /\ users_db' =
       IF type = "customer.subscription.created"
       THEN [u \in DOMAIN users_db |->
               IF u \in CustomerUsers(users_db, users_keys, customer_id)
               THEN [users_db[u] EXCEPT !.tier = PRO,
                                        !.stripe_subscription_id = subscription_id]
               ELSE users_db[u]]
       ELSE IF type = "customer.subscription.deleted"
       THEN [u \in DOMAIN users_db |->
               IF u \in CustomerUsers(users_db, users_keys, customer_id)
               THEN [users_db[u] EXCEPT !.tier = FREE, !.stripe_subscription_id = None]
               ELSE users_db[u]]
       ELSE users_db
  /\ resp' = Response("stripe_webhook", Nobody, 200, [received |-> TRUE, type |-> type])
              @@ [customer_id |-> customer_id]
  /\ UNCHANGED <<users_keys, sessions_db, messages_db, disk, today, clock, turns, plain_providers, history>>

\* ---------------------------------------------------------- specifications

Init ==
  /\ users_db = [u \in {} |-> None]
  /\ users_keys = <<>>
  /\ sessions_db = <<>>
  /\ messages_db = [s \in {} |-> <<>>]
  /\ disk = persist_data([u \in {} |-> None], <<>>, [s \in {} |-> <<>>])
  /\ today = 0
  /\ clock = 0
  /\ turns = [r \in Requests |-> Idle]
  /\ resp = Response("startup", Nobody, 0, [loaded |-> TRUE])
  /\ appended_by = [s \in {} |-> <<>>]
  /\ ok_since_reset = [u \in Users |-> 0]
  /\ ok_tokens = [u \in Users |-> 0]
  /\ rolled_from = [u \in Users |-> 0]
  /\ plain_providers = {}

\* What the limiter has counted for a client's address in the running
\* minute when a chat request of the client arrives: one short of the
\* limit, or the limit.
Hits == {CHAT_RATE_LIMIT - 1, CHAT_RATE_LIMIT}

\* The request slot a new chat coroutine takes.
FreeSlot == CHOOSE r \in Requests : turns[r].pc = "idle" /\ \A q \in 1..(r - 1) : turns[q].pc # "idle"

\* A bound of the specifications, no guard of the code: the runs checked
\* have at most MaxInFlight turns at their vendor calls and at most `limit`
\* messages stored.
CanStart(limit) ==
  /\ \E r \in Requests : turns[r].pc = "idle"
  /\ Stored + 2 * InFlight + 2 <= limit

\* uuid4 values not yet the id of a session.
FreshUuids == Uuids \ SessionIdsOf(sessions_db)

\* Session ids a request can name: a client's own, or an id in the store.
NamedSids == ClientSids \cup SessionIdsOf(sessions_db)

\* What a turn's second datetime.utcnow() reads: the time its first read,
\* or a later one.
Laters == {clock, clock + 1}

\* Vendor answers of the general specification.
Answers == {VendorOk("pong", 5, 3), VendorError(503, "overloaded")}

\* A turn that names its session.
ChatNamed ==
  \E u \in Users, sid \in NamedSids :
    CanStart(MaxStoredSmall) /\ (\E hits \in Hits : ChatStart(FreeSlot, u, Some(sid), "hello", None, hits))

\* The session ids of a request that names no session: absent, or empty.
NoSids == {None, Some("")}

\* A turn without a session id: uuid4 makes one.
ChatUnnamed ==
  \E u \in Users, sid \in NoSids, g \in FreshUuids :
    CanStart(MaxStoredSmall) /\ (\E hits \in Hits : ChatStart(FreeSlot, u, sid, "hello", g, hits))

ChatReturns == \E r \in Requests, v \in Answers : ChatFinish(r, v, clock + 1)

ChatRaises == \E r \in Requests : ChatRaise(r)

ListSessions == \E u \in Users : GetSessions(u)

ReadMessages == \E u \in Users, sid \in NamedSids : GetSessionMessages(sid, u)

\* The session store under chat turns of two users.
Next ==
  \/ ChatNamed
  \/ ChatUnnamed
  \/ ChatReturns
  \/ ChatRaises
  \/ ListSessions
  \/ ReadMessages

Spec == Init /\ [][Next]_vars

\* The user of the long run.
QuotaUser == "u1"

\* Vendor answers of the long run.
QuotaAnswers == {VendorOk("pong", 5, 3), VendorError(503, "overloaded")}

\* The user is within MaxInFlight turns of the daily limit.
NearLimit ==
  /\ QuotaUser \in DOMAIN users_db
  /\ users_db[QuotaUser].messages_today + MaxInFlight
       >= get_tier_limits(FREE).messages_per_day

QuotaChat ==
  CanStart(MaxStored) /\ (\E hits \in Hits : ChatStart(FreeSlot, QuotaUser, Some("s1"), "hello", None, hits))

QuotaReturns == \E r \in Requests, v \in QuotaAnswers : ChatFinish(r, v, clock + 1)

QuotaRead == GetSessionMessages("s1", QuotaUser)

\* Midnight at the end of a day on which the user came near the limit.
QuotaMidnight == NearLimit /\ Tick

\* One user's turns over whole days, up to the daily cap and past midnight.
NextQuota ==
  \/ QuotaChat
  \/ QuotaReturns
  \/ QuotaRead
  \/ QuotaMidnight

SpecQuota == Init /\ [][NextQuota]_vars

\* ------------------------------------------------- further specifications

\* The user of the routing specification.
RouteUser == "u1"

\* A settings request with nothing given.
NoSettings ==
  [provider |-> None, key_mode |-> None, openai_key |-> None,
   anthropic_key |-> None, google_key |-> None, xai_key |-> None]

\* Settings requests of the routing specification: a key as it is stored,
\* a key with whitespace around it, a key of blanks, a key that is too short.
RouteSettings ==
  {[NoSettings EXCEPT !.provider = Some(ANTHROPIC), !.key_mode = Some(BYOK),
                       !.anthropic_key = Some("sk-ant-user-1")],
    [NoSettings EXCEPT !.openai_key = Some("  sk-openai-user-1\t")],
    [NoSettings EXCEPT !.key_mode = Some(MANAGED), !.google_key = Some("          ")],
    [NoSettings EXCEPT !.xai_key = Some("short")]}

RouteRegister ==
  \E p \in {OPENAI, GEMINI}, km \in KeyMode :
    Register(RouteUser, p, km, Some(CustomerOf(RouteUser)))

RouteUpdate == \E st \in RouteSettings : UpdateSettings(RouteUser, st)

RouteWebhook ==
  \E type \in {"customer.subscription.created", "customer.subscription.deleted"} :
    StripeWebhook(type, Some(CustomerOf(RouteUser)), Some("sub_1"))

RouteChat ==
  CanStart(MaxStoredSmall) /\ (\E hits \in Hits : ChatStart(FreeSlot, RouteUser, Some("s1"), "hello", None, hits))

RouteMe == GetMe(RouteUser)

\* Accounts, settings and tier changes of one user around that user's turns.
NextRoute ==
  \/ RouteRegister
  \/ RouteUpdate
  \/ RouteWebhook
  \/ RouteChat
  \/ RouteMe
  \/ ChatReturns

SpecRoute == Init /\ [][NextRoute]_vars

\* Users of the usage specification.
UsageUsers == {"u1", "u2"}

\* Vendor answers of the usage specification: different token counts.
UsageAnswers == {VendorOk("pong", 5, 3), VendorOk("pong", 7, 2), VendorError(503, "overloaded")}

UsageChat ==
  \E u \in UsageUsers :
    CanStart(MaxStoredUsage) /\ (\E hits \in Hits : ChatStart(FreeSlot, u, Some("s1"), "hello", None, hits))

UsageReturns == \E r \in Requests, v \in UsageAnswers : ChatFinish(r, v, clock + 1)

\* Concurrent turns of two users, their token counts, and midnight.
NextUsage ==
  \/ UsageChat
  \/ UsageReturns
  \/ ChatRaises
  \/ Tick

SpecUsage == Init /\ [][NextUsage]_vars

\* The user of the context specification.
CtxUser == "u1"

\* The turns of this specification follow one another.
CtxChat ==
  \E content \in {"alpha", "beta"} :
    /\ InFlight = 0
    /\ CanStart(MaxStoredCtx)
    /\ (\E hits \in Hits : ChatStart(FreeSlot, CtxUser, Some("s1"), content, None, hits))

CtxReturns == \E r \in Requests : ChatFinish(r, VendorOk("pong", 5, 3), clock + 1)

\* One session growing past the context window, with varying contents.
NextCtx ==
  \/ CtxChat
  \/ CtxReturns

SpecCtx == Init /\ [][NextCtx]_vars

\* Providers a cost is asked for: the four vendors and an unknown one.
CostProviders == LLMProvider \cup {"mistral"}

\* Models a cost is asked for: those of the pricing table, the adapters'
\* defaults and an unknown one.
CostModels ==
  UNION {DOMAIN PROVIDER_PRICING[p] : p \in DOMAIN PROVIDER_PRICING}
  \cup {DEFAULT_MODELS[p] : p \in DOMAIN DEFAULT_MODELS}
  \cup {"gpt-5"}

\* Token counts a cost is asked for.
CostTokens == 0..MaxTokens \cup {999, 1000, 4095}

\* The arguments of a call of calculate_cost.
CostCall(provider, model, input_tokens, output_tokens) ==
  Response("arguments", Nobody, 0,
           [provider |-> provider, model |-> model,
            input_tokens |-> input_tokens, output_tokens |-> output_tokens])

\* The process as constructed, and the arguments of the call to come.
InitCost ==
  /\ users_db = [u \in {} |-> None]
  /\ users_keys = <<>>
  /\ sessions_db = <<>>
  /\ messages_db = [s \in {} |-> <<>>]
  /\ disk = persist_data([u \in {} |-> None], <<>>, [s \in {} |-> <<>>])
  /\ today = 0
  /\ clock = 0
  /\ turns = [r \in Requests |-> Idle]
  /\ \E provider \in CostProviders, model \in CostModels,
        input_tokens \in CostTokens, output_tokens \in CostTokens :
       resp = CostCall(provider, model, input_tokens, output_tokens)
  /\ appended_by = [s \in {} |-> <<>>]
  /\ ok_since_reset = [u \in Users |-> 0]
  /\ ok_tokens = [u \in Users |-> 0]
  /\ rolled_from = [u \in Users |-> 0]
  /\ plain_providers = {}

\* billing.py calculate_cost, called on its own.
CalculateCost ==
  /\ resp.op = "arguments"
  /\ resp' = Response("calculate_cost", Nobody, 200,
                      [provider |-> resp.body.provider, model |-> resp.body.model,
                       input_tokens |-> resp.body.input_tokens,
                       output_tokens |-> resp.body.output_tokens,
                       cost_usd |-> calculate_cost(resp.body.provider, resp.body.model,
                                                   resp.body.input_tokens,
                                                   resp.body.output_tokens)])
  /\ UNCHANGED <<users_db, users_keys, sessions_db, messages_db, disk, today, clock, turns, plain_providers, history>>

\* The cost function over providers, models and token counts.
NextCost == CalculateCost

SpecCost == InitCost /\ [][NextCost]_vars

\* The user whose record users.json holds when the process starts.
PersonaUser == "u1"

\* Personality modes users.json may hold for that user: none (the records
\* register and chat write have no such key), a variant, or another string.
StoredModes ==
  {None, Some("pirate"), Some("operator"), Some("cyberpunk"), Some("loyal"), Some("unhinged")}

\* Modes a client asks for.
AskedModes == {"pirate", ""} \cup PersonalityMode

\* The stores as load_json finds them: one FREE user, written by an earlier
\* process, and no session.
InitPersona ==
  /\ \E mode \in StoredModes :
       LET users0 == PersonaUser :> NewUser(PersonaUser, OPENAI, MANAGED, mode)
       IN /\ users_db = users0
          /\ users_keys = <<PersonaUser>>
          /\ disk = persist_data(users0, <<>>, [s \in {} |-> <<>>])
  /\ sessions_db = <<>>
  /\ messages_db = [s \in {} |-> <<>>]
  /\ today = 0
  /\ clock = 0
  /\ turns = [r \in Requests |-> Idle]
  /\ resp = Response("startup", Nobody, 0, [loaded |-> TRUE])
  /\ appended_by = [s \in {} |-> <<>>]
  /\ ok_since_reset = [u \in Users |-> 0]
  /\ ok_tokens = [u \in Users |-> 0]
  /\ rolled_from = [u \in Users |-> 0]
  /\ plain_providers = {PersonaUser}

PersonaSet == \E u \in Users, mode \in AskedModes : SetPersonalityMode(u, mode)

PersonaChat ==
  \E u \in Users :
    CanStart(MaxStoredSmall) /\ (\E hits \in Hits : ChatStart(FreeSlot, u, Some("s1"), "hello", None, hits))

\* Personality modes stored, asked for and used by chat turns.
NextPersona ==
  \/ PersonaSet
  \/ PersonaChat
  \/ ChatReturns

SpecPersona == InitPersona /\ [][NextPersona]_vars

\* The string s written n times.
RECURSIVE Repeat(_, _)
Repeat(s, n) ==
  IF n = 0 THEN ""
  ELSE LET half == Repeat(s, n \div 2)
       IN IF n % 2 = 0 THEN half \o half ELSE half \o half \o s

\* Contents a chat request comes with: empty, blank, ordinary, padded with
\* whitespace of every kind, and around the limit of 10000 characters, with
\* characters that take one byte and characters that take more.
Contents ==
  {"", "   ", " \t\n", "hello", "  hi \n", "", "", "hi\\u00a0", " hi",
   "\\u00a0", "\\u0085 \\u2003", "\\u3000hi", "\\u00e9 ", "h\\u00e9",
   Repeat("a", 10000), Repeat("a", 10001), Repeat("b", 9999) \o "  ",
   Repeat("c", 9999) \o "\\u00e9"}

\* The user of the validation specification.
ValidatedUser == "u1"

ValidatedChat ==
  \E content \in Contents, hits \in Hits :
    /\ CanStart(MaxStoredSmall)
    /\ ChatStart(FreeSlot, ValidatedUser, Some("s1"), content, None, hits)

\* Chat requests with contents of every kind.
NextValidate ==
  \/ ValidatedChat
  \/ ChatReturns

SpecValidate == Init /\ [][NextValidate]_vars

\* The user of the tier specification.
TierUser == "u1"

\* Vendor answers of the tier specification.
TierAnswers == {VendorOk("pong", 8, 8), VendorError(503, "overloaded")}

\* A second user, who registers and subscribes but does not chat.
TierOther == "u2"

\* The user is within MaxInFlight turns of the free cap, or past it.
TierNearCap ==
  /\ TierUser \in DOMAIN users_db
  /\ users_db[TierUser].messages_today + MaxInFlight
       >= get_tier_limits(FREE).messages_per_day

\* The user registers; the second user does on a day on which the first
\* came near the free cap, between the first user's turns.
TierRegister ==
  \/ Register(TierUser, ANTHROPIC, MANAGED, Some(CustomerOf(TierUser)))
  \/ /\ TierNearCap
     /\ InFlight = 0
     /\ Register(TierOther, OPENAI, MANAGED, Some(CustomerOf(TierOther)))

\* A subscription of either user begins or ends on a day on which the first
\* came near the free cap; the second user's between the first user's turns.
TierWebhook ==
  \E type \in {"customer.subscription.created", "customer.subscription.deleted"},
     u \in {TierUser, TierOther} :
    /\ TierNearCap
    /\ u = TierOther => InFlight = 0
    /\ StripeWebhook(type, Some(CustomerOf(u)), Some("sub_" \o u))

TierChat ==
  CanStart(MaxStored) /\ (\E hits \in Hits : ChatStart(FreeSlot, TierUser, Some("s1"), "hello", None, hits))

TierReturns == \E r \in Requests, v \in TierAnswers : ChatFinish(r, v, clock + 1)

\* One user's turns of a day, past the free cap, under changes of the tier
\* of that user and of another.
NextTier ==
  \/ TierRegister
  \/ TierWebhook
  \/ TierChat
  \/ TierReturns

SpecTier == Init /\ [][NextTier]_vars

\* The user users.json holds when the process starts.
ReloadUser == "u1"

\* The stores as load_json finds them: one user written by an earlier
\* process, FREE or PRO, with the provider as the plain string JSON holds.
InitReload ==
  /\ \E tier \in SubscriptionTier, provider \in {OPENAI, ANTHROPIC} :
       LET users0 == ReloadUser :> [NewUser(ReloadUser, provider, MANAGED, None)
                                      EXCEPT !.tier = tier]
       IN /\ users_db = users0
          /\ users_keys = <<ReloadUser>>
          /\ disk = persist_data(users0, <<>>, [s \in {} |-> <<>>])
  /\ sessions_db = <<>>
  /\ messages_db = [s \in {} |-> <<>>]
  /\ today = 0
  /\ clock = 0
  /\ turns = [r \in Requests |-> Idle]
  /\ resp = Response("startup", Nobody, 0, [loaded |-> TRUE])
  /\ appended_by = [s \in {} |-> <<>>]
  /\ ok_since_reset = [u \in Users |-> 0]
  /\ ok_tokens = [u \in Users |-> 0]
  /\ rolled_from = [u \in Users |-> 0]
  /\ plain_providers = {ReloadUser}

ReloadChat ==
  \E u \in Users :
    CanStart(MaxStoredSmall) /\ (\E hits \in Hits : ChatStart(FreeSlot, u, Some("s1"), "hello", None, hits))

\* The loaded user chooses a provider anew.
ReloadUpdate ==
  UpdateSettings(ReloadUser, [NoSettings EXCEPT !.provider = Some(GEMINI)])

\* Chat turns of a user loaded from disk and of a new one.
NextReload ==
  \/ ReloadChat
  \/ ReloadUpdate
  \/ ChatReturns

SpecReload == InitReload /\ [][NextReload]_vars

\* Providers route_chat is called with: the four vendors and two names it
\* does not know.
RouterProviders == {"openai", "anthropic", "gemini", "grok", "mistral", "None"}

\* Message lists route_chat is called with.
RouterMessages ==
  {<<>>,
   <<[role |-> "user", content |-> "hi"]>>,
   <<[role |-> "user", content |-> "abc"],
     [role |-> "assistant", content |-> "defgh"],
     [role |-> "user", content |-> "ij"]>>,
   <<[role |-> "system", content |-> "be brief"],
     [role |-> "user", content |-> "hello there"]>>}

\* Credentials and models route_chat is called with.
RouterKeys == {None, Some("sk-user-key-1")}

RouterModels == {None, Some("gemini-1.5-pro")}

\* main.py chat, lines 410-419: the prompt of a personality mode.
RouterPrompts == {Some(get_system_prompt(mode)) : mode \in PersonalityMode}

\* Vendor answers to the adapter's request.
RouterAnswers ==
  {VendorOk("pong", 5, 3), VendorOk("a longer reply.", 9, 4), VendorError(503, "overloaded")}

\* The process as constructed, and the arguments of the call to come.
InitRouter ==
  /\ users_db = [u \in {} |-> None]
  /\ users_keys = <<>>
  /\ sessions_db = <<>>
  /\ messages_db = [s \in {} |-> <<>>]
  /\ disk = persist_data([u \in {} |-> None], <<>>, [s \in {} |-> <<>>])
  /\ today = 0
  /\ clock = 0
  /\ turns = [r \in Requests |-> Idle]
  /\ \E provider \in RouterProviders, messages \in RouterMessages, api_key \in RouterKeys,
        model \in RouterModels, system_prompt \in RouterPrompts :
       resp = Response("arguments", Nobody, 0,
                       [provider |-> provider, messages |-> messages,
                        api_key |-> api_key, model |-> model,
                        system_prompt |-> system_prompt])
  /\ appended_by = [s \in {} |-> <<>>]
  /\ ok_since_reset = [u \in Users |-> 0]
  /\ ok_tokens = [u \in Users |-> 0]
  /\ rolled_from = [u \in Users |-> 0]
  /\ plain_providers = {}

\* llm.py route_chat, called on its own, up to the adapter's request.
RouteChatCall ==
  /\ resp.op = "arguments"
  /\ resp' = Response("route_chat", Nobody, 0,
                      [given |-> resp.body,
                       call |-> route_chat(resp.body.provider, resp.body.messages,
                                           resp.body.api_key, resp.body.model,
                                           resp.body.system_prompt)])
  /\ UNCHANGED <<users_db, users_keys, sessions_db, messages_db, disk, today, clock, turns, plain_providers, history>>

\* The vendor answers and the adapter returns its dictionary.
AdapterReturns ==
  \E vendor \in RouterAnswers :
    /\ resp.op = "route_chat"
    /\ resp' = Response("adapter", Nobody, vendor.status,
                        [given |-> resp.body.given, call |-> resp.body.call,
                         vendor |-> vendor,
                         result |-> HandlerResult(resp.body.call, vendor)])
    /\ UNCHANGED <<users_db, users_keys, sessions_db, messages_db, disk, today, clock, turns, plain_providers, history>>

\* The router and its adapters over providers, messages and vendor answers.
NextRouter ==
  \/ RouteChatCall
  \/ AdapterReturns

SpecRouter == InitRouter /\ [][NextRouter]_vars

\* Accounts, settings, tier changes and turns of one user over midnight.
NextMonth ==
  \/ RouteRegister
  \/ RouteUpdate
  \/ RouteWebhook
  \/ RouteChat
  \/ ChatReturns
  \/ Tick

SpecMonth == Init /\ [][NextMonth]_vars

\* Session ids the clients of the pairs specification send, the text
\* "None" among them.
PairSids == {"s1", "None"}

PairsChat ==
  \E u \in Users, sid \in PairSids :
    CanStart(MaxStoredUsage) /\ (\E hits \in Hits : ChatStart(FreeSlot, u, Some(sid), "hello", None, hits))

PairsReturns ==
  \E r \in Requests, v \in Answers, later \in Laters : ChatFinish(r, v, later)

\* Turns of two users on two named sessions, each reading the clock twice.
NextPairs ==
  \/ PairsChat
  \/ PairsReturns

SpecPairs == Init /\ [][NextPairs]_vars

\* ------------------------------------------------------------------ claims

\* The answer is the limiter's refusal of a chat request (main.py 327).
RateLimited(rsp) ==
  rsp.op = "chat" /\ rsp.status = 429 /\ "error" \in DOMAIN rsp.body

\* The answer is the refusal of chat()'s daily-limit check (main.py 361-365).
DailyLimit(rsp) ==
  rsp.op = "chat" /\ rsp.status = 429 /\ "cap" \in DOMAIN rsp.body

\* The step just taken began a chat turn of user u: chat() was entered, and
\* the turn was rejected by the quota gate (429) or suspended at its vendor
\* call (0).  A request the limiter refuses begins no turn.
Began(u) ==
  /\ resp'.op = "chat"
  /\ resp'.user = u
  /\ resp'.status = 0 \/ DailyLimit(resp')

\* The step just taken completed the turn of slot r with a 200.
Succeeded(r) ==
  /\ turns[r].pc = "await"
  /\ turns'[r].pc = "idle"
  /\ resp'.op = "chat"
  /\ resp'.status = 200

\* C1: a chat turn of a FREE user whose lastMessageDate is today and whose
\* messagesToday is at least 25 is answered 429, and that step issues no
\* vendor call (no coroutine is suspended), creates no session, appends no
\* message and leaves the user's counters, the date and the files as they were.
C1_QuotaRejectionChangesNothing ==
  [][\A u \in DOMAIN users_db :
       ( /\ users_db[u].tier = FREE
         /\ users_db[u].last_message_date = Some(isoformat(today))
         /\ users_db[u].messages_today >= 25
         /\ Began(u) )
       => /\ resp'.status = 429
          /\ UNCHANGED <<users_db, sessions_db, messages_db, disk, turns>>]_vars

\* C1's case: a FREE user at the cap today was just answered 429.
C1_Witness ==
  /\ DailyLimit(resp)
  /\ users_db[resp.user].tier = FREE
  /\ users_db[resp.user].messages_today >= 25
  /\ users_db[resp.user].last_message_date = Some(isoformat(today))

\* C2: a FREE user's messagesToday never exceeds the cap of 25, whatever the
\* interleaving of that user's turns.
C2_FreeCapUnderConcurrency ==
  \A u \in DOMAIN users_db :
    users_db[u].tier = FREE => users_db[u].messages_today <= 25

\* C3 as amended: a chat turn that starts for a user whose lastMessageDate is
\* not today sets messagesToday to 0 and lastMessageDate to today before the
\* cap comparison and so is not rejected; when that turn succeeds,
\* messagesToday is 1 plus the number of other turns of the user that
\* succeeded since the user's counter was last reset -- by this turn, or by
\* a turn that started on a later day while this one was at its vendor
\* call -- so 1 when there was none.
C3_DayRollover ==
  [][ /\ \A u \in DOMAIN users_db :
           (users_db[u].last_message_date # Some(isoformat(today)) /\ Began(u))
           => /\ resp'.status = 0
              /\ users_db'[u].messages_today = 0
              /\ users_db'[u].last_message_date = Some(isoformat(today))
      /\ \A r \in Requests :
           (Succeeded(r) /\ turns[r].rollover)
           => /\ users_db'[turns[r].user_id].messages_today
                   = 1 + ok_since_reset[turns[r].user_id]
              /\ (ok_since_reset[turns[r].user_id] = 0
                  => users_db'[turns[r].user_id].messages_today = 1) ]_vars

\* C3's case: a FREE user who had 25 messages yesterday was let through, the
\* turn succeeded and messagesToday is 1.
C3_Witness ==
  /\ resp.op = "chat"
  /\ resp.status = 200
  /\ today = 1
  /\ rolled_from[resp.user] = 25
  /\ users_db[resp.user].tier = FREE
  /\ users_db[resp.user].messages_today = 1
  /\ users_db[resp.user].last_message_date = Some(isoformat(today))

\* C3 as stated: after the turn that rolled the day over succeeds,
\* messagesToday is 1.
C3_AsStated ==
  [][\A r \in Requests :
       (Succeeded(r) /\ turns[r].rollover)
       => users_db'[turns[r].user_id].messages_today = 1]_vars

\* C4: every chat turn of a user who is FREE when the turn starts calls the
\* OpenAI adapter with model gpt-3.5-turbo and no credential of the user (the
\* adapter falls back to the operator's key), whatever the stored provider,
\* key mode and keys.
C4_FreeTierRouting ==
  \A r \in Requests :
    (turns[r].pc = "await" /\ turns[r].tier = FREE)
    => /\ turns[r].call.handler = OPENAI
       /\ turns[r].call.model = Some("gpt-3.5-turbo")
       /\ turns[r].call.api_key = None
       /\ turns[r].call.request.vendor = OPENAI
       /\ turns[r].call.request.model = "gpt-3.5-turbo"
       /\ turns[r].call.request.key = SettingsKey(OPENAI)

\* C4's case: a FREE user who prefers Anthropic, is in BYOK mode and has
\* stored keys for Anthropic and OpenAI has just started a turn.
C4_Witness ==
  /\ resp.op = "chat"
  /\ resp.status = 0
  /\ turns[resp.body.slot].tier = FREE
  /\ users_db[resp.user].provider = ANTHROPIC
  /\ users_db[resp.user].key_mode = BYOK
  /\ users_db[resp.user].anthropic_key # None
  /\ users_db[resp.user].openai_key # None

\* C5: a successful turn adds exactly 1 to the user's messagesToday and
\* exactly the response's inputTokens + outputTokens to tokensThisMonth, and
\* under every interleaving tokensThisMonth is the sum over all the user's
\* successful turns and messagesToday their number since the last day reset.
C5_UsageIncrements ==
  [][ /\ \A r \in Requests :
           Succeeded(r)
           => LET u == turns[r].user_id
              IN /\ users_db'[u].messages_today = users_db[u].messages_today + 1
                 /\ users_db'[u].tokens_this_month
                      = users_db[u].tokens_this_month
                        + resp'.body.input_tokens + resp'.body.output_tokens
                 /\ \A w \in DOMAIN users_db \ {u} : users_db'[w] = users_db[w]
      /\ \A u \in DOMAIN users_db' :
           /\ users_db'[u].tokens_this_month = ok_tokens'[u]
           /\ users_db'[u].messages_today = ok_since_reset'[u] ]_vars

\* C5's case: a turn of a user just succeeded while another turn of the same
\* user is still at its vendor call, and two turns of that user with
\* different token counts have succeeded today.
C5_Witness ==
  /\ resp.op = "chat"
  /\ resp.status = 200
  /\ \E r \in Requests : turns[r].pc = "await" /\ turns[r].user_id = resp.user
  /\ users_db[resp.user].messages_today = 2
  /\ users_db[resp.user].tokens_this_month = 17

\* C6: the messages a turn passes to the adapter are the last min(n, 10) of
\* the session's n stored messages, as role and content and in stored order,
\* followed by the turn's own user message and nothing else.
C6_ContextIsLastTen ==
  (resp.op = "chat" /\ resp.status = 0)
  => LET t == turns[resp.body.slot]
         stored == messages_db[t.session_id]
         n == Len(stored)
         k == IF n < 10 THEN n ELSE 10
         sent == t.call.messages
     IN /\ Len(sent) = k + 1
        /\ \A i \in 1..k :
             sent[i] = [role |-> stored[n - k + i].role,
                        content |-> stored[n - k + i].content]
        /\ sent[k + 1] = [role |-> "user", content |-> t.content]

\* C6's case: a turn has just started on a session of 30 stored messages
\* whose first ten differ from its last ten.
C6_Witness ==
  /\ resp.op = "chat"
  /\ resp.status = 0
  /\ Len(messages_db[turns[resp.body.slot].session_id]) = 30
  /\ messages_db[turns[resp.body.slot].session_id][1].content
       # messages_db[turns[resp.body.slot].session_id][21].content
  /\ Len(turns[resp.body.slot].call.messages) = 11

\* C7: every step keeps each session's history as a prefix of its history
\* after the step (nothing removed, changed or reordered, also when the
\* context sent to the vendor was truncated), and a getMessages answered 200
\* returns the whole stored history.
C7_HistoryAppendOnly ==
  [][ /\ \A sid \in DOMAIN messages_db :
           /\ sid \in DOMAIN messages_db'
           /\ Len(messages_db[sid]) <= Len(messages_db'[sid])
           /\ SubSeq(messages_db'[sid], 1, Len(messages_db[sid])) = messages_db[sid]
      /\ (resp'.op = "get_session_messages" /\ resp'.status = 200)
         => resp'.body.messages = messages_db'[resp'.session_id] ]_vars

\* C7's case: the owner has just read a history of 30 messages while a turn
\* that was sent a truncated context of it is at its vendor call.
C7_Witness ==
  /\ resp.op = "get_session_messages"
  /\ resp.status = 200
  /\ Len(resp.body.messages) = 30
  /\ \E r \in Requests :
       /\ turns[r].pc = "await"
       /\ turns[r].session_id = resp.session_id
       /\ Len(turns[r].call.messages) = 11

\* C8: every message of a session was appended by a turn of the session's
\* owner, and every turn at its vendor call works on a session owned by its
\* requester (so the context it sent is the requester's own).
C8_TurnsStayInOwnSessions ==
  /\ \A sid \in DOMAIN appended_by :
       \A i \in 1..Len(appended_by[sid]) :
         appended_by[sid][i] = Session(sessions_db, sid).user_id
  /\ \A r \in Requests :
       turns[r].pc = "await"
       => Session(sessions_db, turns[r].session_id).user_id = turns[r].user_id

\* C9: getMessages answers 404 for a session that does not exist, 403 (and no
\* message) for a session of another user, and 200 with the full history for
\* the owner; it changes nothing.
C9_GetMessages ==
  [][ resp'.op = "get_session_messages"
      => /\ UNCHANGED <<users_db, sessions_db, messages_db, disk, today, clock, turns>>
         /\ IF ~HasSession(sessions_db, resp'.session_id)
            THEN resp'.status = 404 /\ "messages" \notin DOMAIN resp'.body
            ELSE IF Session(sessions_db, resp'.session_id).user_id # resp'.user
            THEN resp'.status = 403 /\ "messages" \notin DOMAIN resp'.body
            ELSE /\ resp'.status = 200
                 /\ resp'.body.messages = messages_db[resp'.session_id] ]_vars

\* C9's case: a user has just been refused (403) the non-empty history of
\* another user's session.
C9_Witness ==
  /\ resp.op = "get_session_messages"
  /\ resp.status = 403
  /\ HasSession(sessions_db, resp.session_id)
  /\ Session(sessions_db, resp.session_id).user_id # resp.user
  /\ Len(messages_db[resp.session_id]) > 0

\* C10: GET /sessions lists every session the caller owns, once, and no
\* session of another user.
C10_SessionsOfCaller ==
  resp.op = "get_sessions"
  => LET listed == resp.body.sessions
         ids == {listed[i].id : i \in 1..Len(listed)}
     IN /\ resp.status = 200
        /\ ids = {sid \in SessionIdsOf(sessions_db) :
                    Session(sessions_db, sid).user_id = resp.user}
        /\ Cardinality(ids) = Len(listed)
        /\ \A i \in 1..Len(listed) : listed[i] = Session(sessions_db, listed[i].id)

\* C10's case: a caller owning two sessions has just listed them while the
\* store also holds a session of another user.
C10_Witness ==
  /\ resp.op = "get_sessions"
  /\ Len(resp.body.sessions) = 2
  /\ \E i \in 1..Len(sessions_db) : sessions_db[i].user_id # resp.user

\* The pair (provider, model) is an entry of the pricing table.
InPricingTable(provider, model) ==
  provider \in DOMAIN PROVIDER_PRICING /\ model \in DOMAIN PROVIDER_PRICING[provider]

\* `cost` millionths of a dollar is a/1000 * price_in + b/1000 * price_out
\* rounded to 6 decimals: a multiple of 0.000001 nearest to the exact sum
\* (prices in millionths of a dollar per 1K tokens, so the sum a * price_in +
\* b * price_out is in billionths of a dollar).
IsRoundedCost(cost, price_in, price_out, a, b) ==
  LET exact == a * price_in + b * price_out
  IN 1000 * cost - exact <= 500 /\ exact - 1000 * cost <= 500

\* C11: for every pair of the pricing table and all token counts a, b >= 0,
\* calculate_cost is a/1000 * priceIn + b/1000 * priceOut at that pair's
\* prices, rounded to 6 decimals; computing it changes nothing.
C11_CostOfTablePairs ==
  [][(resp'.op = "calculate_cost"
      /\ InPricingTable(resp'.body.provider, resp'.body.model))
     => /\ IsRoundedCost(resp'.body.cost_usd,
                         PROVIDER_PRICING[resp'.body.provider][resp'.body.model].input,
                         PROVIDER_PRICING[resp'.body.provider][resp'.body.model].output,
                         resp'.body.input_tokens, resp'.body.output_tokens)
        /\ UNCHANGED <<users_db, sessions_db, messages_db, disk, today, clock, turns>>]_vars

\* C11's case: the cost of 1000 input and 999 output tokens of a pair of the
\* table whose prices are not the fallback ones has been computed.
C11_Witness ==
  /\ resp.op = "calculate_cost"
  /\ resp.body.provider = GEMINI
  /\ resp.body.model = "gemini-1.5-flash"
  /\ resp.body.input_tokens = 1000
  /\ resp.body.output_tokens = 999
  /\ resp.body.cost_usd = 375

\* C12: for every pair that is no entry of the pricing table (unknown
\* provider, or unknown model of a known provider) calculate_cost answers,
\* and with the fallback prices 0.01 and 0.03 per 1K tokens: 10 millionths
\* of a dollar per input token and 30 per output token.
C12_FallbackPrices ==
  (resp.op = "calculate_cost"
   /\ ~InPricingTable(resp.body.provider, resp.body.model))
  => /\ resp.status = 200
     /\ resp.body.cost_usd = 10 * resp.body.input_tokens + 30 * resp.body.output_tokens

\* C12's case: the cost for a known provider with a model that is not in
\* the table (the Anthropic adapter's default model) has been computed.
C12_Witness ==
  /\ resp.op = "calculate_cost"
  /\ resp.body.provider = ANTHROPIC
  /\ resp.body.model = DEFAULT_MODELS[ANTHROPIC]
  /\ resp.body.model \notin DOMAIN PROVIDER_PRICING[ANTHROPIC]
  /\ resp.body.input_tokens = 7
  /\ resp.body.output_tokens = 2
  /\ resp.body.cost_usd = 130

\* C13: the costUsd a successful turn of a FREE user returns is the cost of
\* the vendor's input and output token counts at the prices of the table
\* entry (openai, gpt-3.5-turbo), not at the fallback prices, and the first
\* turn of the user to succeed on a day leaves messagesToday at 1.
C13_FreeTurnCost ==
  [][\A r \in Requests :
       (Succeeded(r) /\ turns[r].tier = FREE)
       => LET u == turns[r].user_id
              a == resp'.body.input_tokens
              b == resp'.body.output_tokens
          IN /\ IsRoundedCost(resp'.body.cost_usd,
                              PROVIDER_PRICING[OPENAI][FREE_TIER_MODEL].input,
                              PROVIDER_PRICING[OPENAI][FREE_TIER_MODEL].output, a, b)
             /\ (a + b > 0 => resp'.body.cost_usd
                                # (DefaultPricing.input \div 1000) * a
                                  + (DefaultPricing.output \div 1000) * b)
             /\ (ok_since_reset[u] = 0 => users_db'[u].messages_today = 1)]_vars

\* C13's case: the first turn of a FREE user on a day has just succeeded
\* with 5 input and 3 output tokens from the vendor, at a cost of 0.000007.
C13_Witness ==
  /\ resp.op = "chat"
  /\ resp.status = 200
  /\ users_db[resp.user].tier = FREE
  /\ resp.body.input_tokens = 5
  /\ resp.body.output_tokens = 3
  /\ resp.body.cost_usd = 7
  /\ ok_since_reset[resp.user] = 1
  /\ users_db[resp.user].messages_today = 1

\* The step just taken started the turn of slot r: it is now at its vendor
\* call.
Started(r) == turns[r].pc = "idle" /\ turns'[r].pc = "await"

\* C14: a chat turn of a user whose stored personality mode is missing or
\* no variant of the enumeration starts (it is not failed) and sends the
\* operator template; a stored variant selects its own template; either way
\* the system prompt sent is the template followed by the fixed context.
C14_PersonalityPrompt ==
  [][ /\ \A r \in Requests :
           Started(r)
           => LET u == turns'[r].user_id
                  stored == IF u \in DOMAIN users_db
                            THEN users_db[u].personality_mode ELSE None
                  template == IF stored # None /\ stored[1] \in PersonalityMode
                              THEN PERSONALITY_PROMPTS[stored[1]]
                              ELSE PERSONALITY_PROMPTS["operator"]
                  call == turns'[r].call
              IN /\ resp'.status = 0
                 /\ call.system_prompt = template \o cloud_context
                 /\ call.request.messages[1]
                      = [role |-> "system", content |-> template \o cloud_context]
      /\ (resp'.op = "chat" /\ resp'.status = 500)
         => \E r \in Requests : turns[r].pc = "await" /\ turns'[r].pc = "idle" ]_vars

\* C14's case: a user whose stored mode is no variant of the enumeration
\* has a turn at its vendor call, sent with the operator prompt, and another
\* turn of that user has already succeeded.
C14_Witness ==
  /\ resp.op = "chat"
  /\ resp.status = 0
  /\ users_db[resp.user].personality_mode = Some("pirate")
  /\ users_db[resp.user].messages_today = 1
  /\ turns[resp.body.slot].call.system_prompt
       = PERSONALITY_PROMPTS["operator"] \o cloud_context
  /\ PERSONALITY_PROMPTS["operator"] # PERSONALITY_PROMPTS["cyberpunk"]

\* C15 as amended: for a caller who has a user record, PATCH
\* personality-mode with a mode outside the enumeration answers 400 and
\* leaves everything as it was, and with a mode of the enumeration stores
\* that mode, so a mode stored by this operation is always in the
\* enumeration; a caller without a user record is answered 404 whatever the
\* mode, and nothing is stored.
C15_SetPersonalityMode ==
  [][resp'.op = "set_personality_mode"
     => LET u == resp'.user
        IN IF u \notin DOMAIN users_db
           THEN /\ resp'.status = 404
                /\ UNCHANGED <<users_db, disk>>
           ELSE IF resp'.mode \notin {"operator", "cyberpunk", "loyal", "unhinged"}
           THEN /\ resp'.status = 400
                /\ UNCHANGED <<users_db, disk>>
           ELSE /\ resp'.status = 200
                /\ users_db'[u].personality_mode = Some(resp'.mode)
                /\ users_db'[u].personality_mode[1] \in PersonalityMode
                /\ \A w \in DOMAIN users_db \ {u} : users_db'[w] = users_db[w]]_vars

\* C15's case: a user whose stored mode is a variant has just been refused
\* (400) a mode outside the enumeration.
C15_Witness ==
  /\ resp.op = "set_personality_mode"
  /\ resp.status = 400
  /\ resp.mode = "pirate"
  /\ users_db[resp.user].personality_mode = Some("cyberpunk")

\* C15 as stated: a mode outside the enumeration is answered 400 and a mode
\* inside it is stored, whoever the caller is.
C15_AsStated ==
  [][resp'.op = "set_personality_mode"
     => IF resp'.mode \notin {"operator", "cyberpunk", "loyal", "unhinged"}
        THEN resp'.status = 400
        ELSE /\ resp'.user \in DOMAIN users_db'
             /\ users_db'[resp'.user].personality_mode = Some(resp'.mode)]_vars

\* C16: a turn that passes the quota check issues exactly one vendor call,
\* the request of the handler it was routed to, and a rejected turn none;
\* while the turn waits its call is not issued again; a vendor response
\* other than 200 ends the turn with a 500 that carries the vendor's body,
\* and that step starts no call in any slot and writes nothing.
C16_OneVendorCall ==
  [][ /\ \A r \in Requests :
           /\ Started(r)
              => /\ turns'[r].call.request.vendor = turns'[r].call.handler
                 /\ turns'[r].call.handler = Handler(turns'[r].provider)
                 /\ \A q \in Requests \ {r} : turns'[q] = turns[q]
           /\ (turns[r].pc = "await" /\ turns'[r].pc = "await")
              => turns'[r] = turns[r]
           /\ (turns[r].pc = "await" /\ turns'[r].pc = "idle"
               /\ "vendor" \in DOMAIN resp' /\ resp'.vendor.status # 200)
              => /\ resp'.op = "chat"
                 /\ resp'.status = 500
                 /\ resp'.body.detail = resp'.vendor.text
                 /\ \A q \in Requests \ {r} : turns'[q] = turns[q]
                 /\ UNCHANGED <<users_db, sessions_db, messages_db, disk>>
      /\ (resp'.op = "chat" /\ resp'.status = 429) => UNCHANGED turns ]_vars

\* C16's case: a turn has just been ended with a 500 carrying the body of
\* the vendor's 503 while another turn is at its own vendor call.
C16_Witness ==
  /\ resp.op = "chat"
  /\ resp.status = 500
  /\ "vendor" \in DOMAIN resp
  /\ resp.vendor.status = 503
  /\ resp.body.detail = "overloaded"
  /\ \E r \in Requests : turns[r].pc = "await"

\* Every character of the text is whitespace (so is the empty text).
IsBlank(text) ==
  \A i \in 1..Len(text) :
    \/ SubSeq(text, i, i) \in Whitespace
    \/ \E j \in (i - 5)..i :
         j >= 1 /\ j + 5 <= Len(text) /\ SubSeq(text, j, j + 5) \in Whitespace

\* C17: a chat request whose content is empty, whitespace-only or longer
\* than 10000 characters is answered with a validation error, and that step
\* starts no vendor call, creates no user and no session, appends no message
\* and changes no counter; any other content, one of exactly 10000
\* characters included, is not refused as invalid.
C17_ContentValidation ==
  [][(resp'.op = "chat" /\ "raw_content" \in DOMAIN resp')
     => LET raw == resp'.raw_content
        IN IF IsBlank(raw) \/ StrLen(raw) > 10000
           THEN /\ resp'.status = 422
                /\ UNCHANGED <<users_db, sessions_db, messages_db, disk, turns>>
           ELSE /\ resp'.status \in {0, 429}
                /\ resp'.status = 0
                   => LET content == turns'[resp'.body.slot].content
                      IN /\ ~IsBlank(content)
                         /\ \E i \in 1..(Len(raw) - Len(content) + 1) :
                              SubSeq(raw, i, i + Len(content) - 1) = content]_vars

\* C17's case: a request with 10001 characters has just been refused while
\* a turn whose content has exactly 10000 characters is at its vendor call.
C17_Witness ==
  /\ resp.op = "chat"
  /\ resp.status = 422
  /\ StrLen(resp.raw_content) = 10001
  /\ \E r \in Requests : turns[r].pc = "await" /\ StrLen(turns[r].content) = 10000

\* C18: a turn of a user whose tier is PRO when it starts is never refused
\* with the daily-limit error, whatever the user's messages_today is, and a
\* turn is refused with it exactly when the user's tier is FREE and the
\* day's count has reached the cap: tokens_this_month plays no part.
C18_OnlyFreeDailyCap ==
  [][Began(TierUser)
     => LET user == users_db'[TierUser]
        IN (resp'.status = 429)
             <=> (user.tier = FREE
                    /\ user.messages_today >= get_tier_limits(FREE).messages_per_day)]_vars

\* C18's case: a PRO user whose day's count is past the free cap and whose
\* month holds hundreds of tokens has just started a turn.
C18_Witness ==
  /\ resp.op = "chat"
  /\ resp.status = 0
  /\ resp.user = TierUser
  /\ TierUser \in DOMAIN users_db
  /\ users_db[TierUser].tier = PRO
  /\ users_db[TierUser].messages_today > get_tier_limits(FREE).messages_per_day
  /\ users_db[TierUser].tokens_this_month > 400

\* The turn of slot r came without a session id.
Unnamed(turn) == ~Truthy(turn.message_session_id)

\* The last two messages of a history are a turn's user message and reply.
EndsWithTurn(msgs, content, reply) ==
  /\ Len(msgs) >= 2
  /\ msgs[Len(msgs) - 1].role = "user"
  /\ msgs[Len(msgs) - 1].content = content
  /\ msgs[Len(msgs)].role = "assistant"
  /\ msgs[Len(msgs)].content = reply

\* C19 as stated: when a turn that came without a session id succeeds, the
\* history of its session is exactly the user message and the reply.
C19_AsStated ==
  [][\A r \in Requests :
       (Succeeded(r) /\ Unnamed(turns[r]))
         => LET msgs == messages_db'[turns[r].session_id]
            IN Len(msgs) = 2 /\ EndsWithTurn(msgs, turns[r].content, resp'.body.content)]_vars

\* C19: a turn without a session id creates a session whose id is that of
\* no existing session, owned by the requester and with an empty history;
\* when the turn succeeds, the response returns that id and the session's
\* history is what it was just before plus the user message and the reply,
\* hence exactly those two unless another turn named the new session and
\* succeeded while this one was at its vendor call; the session entries
\* already stored, their owners included, never change.
C19_FreshSession ==
  [][/\ \A r \in Requests :
          (Started(r) /\ Unnamed(turns'[r]))
            => LET sid == turns'[r].session_id
               IN /\ sid \notin SessionIdsOf(sessions_db)
                  /\ sid \notin DOMAIN messages_db
                  /\ HasSession(sessions_db', sid)
                  /\ Session(sessions_db', sid).user_id = turns'[r].user_id
                  /\ messages_db'[sid] = <<>>
     /\ \A r \in Requests :
          (Succeeded(r) /\ Unnamed(turns[r]))
            => LET sid == turns[r].session_id
                   before == messages_db[sid]
                   msgs == messages_db'[sid]
               IN /\ resp'.body.session_id = sid
                  /\ Len(msgs) = Len(before) + 2
                  /\ SubSeq(msgs, 1, Len(before)) = before
                  /\ EndsWithTurn(msgs, turns[r].content, resp'.body.content)
                  /\ Session(sessions_db', sid).user_id = turns[r].user_id
     /\ Len(sessions_db') >= Len(sessions_db)
     /\ \A i \in 1..Len(sessions_db) : sessions_db'[i] = sessions_db[i]]_vars

\* C19's case: one user's turn without a session id has succeeded and its
\* session holds exactly that turn, while a second session made the same
\* way by the other user exists.
C19_Witness ==
  /\ resp.op = "chat"
  /\ resp.status = 200
  /\ resp.body.session_id \in Uuids
  /\ Len(messages_db[resp.body.session_id]) = 2
  /\ Session(sessions_db, resp.body.session_id).user_id = resp.user
  /\ \E i \in 1..Len(sessions_db) :
       sessions_db[i].id \in Uuids /\ sessions_db[i].user_id # resp.user

\* The field of the user record that holds the user's key for a vendor.
KeyField ==
  (OPENAI :> "openai_key") @@ (ANTHROPIC :> "anthropic_key")
  @@ (GEMINI :> "google_key") @@ (GROK :> "xai_key")

\* C20: a chat request of a PRO user in BYOK mode that the limiter lets
\* through is not refused, and the turn calls the adapter of the user's stored provider with the key the
\* user stored for that provider, never with a key stored for another
\* vendor; with no key stored for the provider the adapter is called with
\* no credential (and posts with the operator's key for that vendor).
C20_ByokCredential ==
  [][(resp'.op = "chat" /\ "raw_content" \in DOMAIN resp'
        /\ ~RateLimited(resp')
        /\ resp'.user \in DOMAIN users_db
        /\ users_db[resp'.user].tier = PRO
        /\ users_db[resp'.user].key_mode = BYOK)
     => /\ resp'.status = 0
        /\ LET user == users_db[resp'.user]
               call == turns'[resp'.body.slot].call
               stored == user[KeyField[user.provider]]
           IN /\ call.handler = user.provider
              /\ call.api_key = stored
              /\ \A q \in LLMProvider \ {user.provider} :
                   user[KeyField[q]] # None => call.api_key # user[KeyField[q]]
              /\ call.request.vendor = user.provider
              /\ call.request.key
                   = IF stored = None THEN SettingsKey(user.provider) ELSE stored[1]]_vars

\* C20's case: a PRO user in BYOK mode who prefers Gemini and has stored a
\* key for OpenAI but none for Gemini has just started a turn, and the
\* Gemini adapter was given no credential.
C20_Witness ==
  /\ resp.op = "chat"
  /\ resp.status = 0
  /\ turns[resp.body.slot].tier = PRO
  /\ users_db[resp.user].key_mode = BYOK
  /\ users_db[resp.user].provider = GEMINI
  /\ users_db[resp.user].google_key = None
  /\ users_db[resp.user].openai_key # None
  /\ turns[resp.body.slot].call.handler = GEMINI
  /\ turns[resp.body.slot].call.api_key = None

\* C21 as stated: a turn's cost is computed before its messages are appended
\* and its counters incremented, so a turn that is answered with an error
\* has stored no message and changed no counter.
C21_CostBeforeUpdates ==
  [][\A r \in Requests :
       (turns[r].pc = "await" /\ turns'[r].pc = "idle" /\ resp'.status # 200)
         => UNCHANGED <<users_db, messages_db>>]_vars

\* C22: route_chat invokes the adapter of the provider it is given when that
\* is one of the four vendors and the OpenAI adapter for any other value; the
\* one adapter invoked posts to its own vendor and gets the messages, the
\* credential, the model and the system prompt as given.
C22_RouterDelegates ==
  resp.op = "route_chat"
  => LET given == resp.body.given
         call == resp.body.call
         known == given.provider \in {"openai", "anthropic", "gemini", "grok"}
     IN /\ known => call.handler = given.provider
        /\ ~known => call.handler = "openai"
        /\ call.request.vendor = call.handler
        /\ call.messages = given.messages
        /\ call.api_key = given.api_key
        /\ call.model = given.model
        /\ Some(call.system_prompt) = given.system_prompt

\* C22's case: route_chat was called with a provider it does not know and
\* the prompt of a personality mode, and has invoked the OpenAI adapter with
\* that prompt.
C22_Witness ==
  /\ resp.op = "route_chat"
  /\ resp.body.given.provider = "mistral"
  /\ resp.body.given.system_prompt = Some(get_system_prompt("cyberpunk"))
  /\ resp.body.call.system_prompt = get_system_prompt("cyberpunk")
  /\ resp.body.call.system_prompt # default_system
  /\ resp.body.given.api_key = Some("sk-user-key-1")
  /\ Len(resp.body.given.messages) = 3
  /\ resp.body.call.handler = OPENAI
  /\ resp.body.call.request.key = "sk-user-key-1"

\* C23: a subscription-created event sets the tier of the user with the
\* event's customer id to PRO and a subscription-deleted event sets it to
\* FREE; the event changes the tier of no other user, no counter, no session
\* and no message.  A turn that starts while the user's tier is FREE -- as
\* after a downgrade -- is refused exactly when the day's count has reached
\* the cap and else calls OpenAI with the free model; a turn that starts
\* while the tier is PRO -- as after an upgrade -- is never refused.
C23_TierChangeNotifier ==
  [][/\ resp'.op = "stripe_webhook"
          => /\ \A u \in DOMAIN users_db :
                  /\ users_db'[u].messages_today = users_db[u].messages_today
                  /\ users_db'[u].tokens_this_month = users_db[u].tokens_this_month
                  /\ users_db'[u].last_message_date = users_db[u].last_message_date
                  /\ IF users_db[u].stripe_customer_id = resp'.customer_id
                     THEN users_db'[u].tier
                            = IF resp'.body.type = "customer.subscription.created"
                              THEN PRO ELSE FREE
                     ELSE users_db'[u] = users_db[u]
             /\ DOMAIN users_db' = DOMAIN users_db
             /\ UNCHANGED <<sessions_db, messages_db, turns>>
     /\ Began(TierUser)
          => LET user == users_db'[TierUser]
             IN IF user.tier = FREE
                THEN /\ (resp'.status = 429)
                          <=> user.messages_today >= get_tier_limits(FREE).messages_per_day
                     /\ resp'.status = 0
                          => /\ turns'[resp'.body.slot].call.handler = OPENAI
                             /\ turns'[resp'.body.slot].call.request.model = "gpt-3.5-turbo"
                ELSE /\ resp'.status = 0
                     /\ turns'[resp'.body.slot].call.handler = user.provider]_vars

\* C23's case: the event that deletes the user's subscription has just been
\* handled, with the user's count of the day above the free cap and a turn
\* of the user at its vendor call, while the other user stays PRO.
C23_Witness ==
  /\ resp.op = "stripe_webhook"
  /\ resp.body.type = "customer.subscription.deleted"
  /\ resp.customer_id = Some(CustomerOf(TierUser))
  /\ users_db[TierUser].tier = FREE
  /\ users_db[TierUser].messages_today > get_tier_limits(FREE).messages_per_day
  /\ InFlight > 0
  /\ TierOther \in DOMAIN users_db
  /\ users_db[TierOther].tier = PRO

\* C24: the request the Gemini adapter posts has one turn for each message
\* it was given, in the same order and with the same text, with role "user"
\* for a message of role "user" and role "model" for any other; the system
\* prompt is the request's system instruction and no turn of the contents.
C24_GeminiTurns ==
  (resp.op = "route_chat" /\ resp.body.call.handler = "gemini")
  => LET given == resp.body.call.messages
         request == resp.body.call.request
     IN /\ Len(request.messages) = Len(given)
        /\ \A i \in 1..Len(given) :
             /\ request.messages[i].text = given[i].content
             /\ given[i].role = "user" => request.messages[i].role = "user"
             /\ given[i].role # "user" => request.messages[i].role = "model"
        /\ request.system = Some(resp.body.call.system_prompt)

\* C24's case: the Gemini adapter was given a system-role message, a user
\* message and a system prompt of the caller.
C24_Witness ==
  /\ resp.op = "route_chat"
  /\ resp.body.given.provider = GEMINI
  /\ resp.body.given.system_prompt = Some(get_system_prompt("loyal"))
  /\ Len(resp.body.given.messages) = 2
  /\ resp.body.given.messages[1].role = "system"
  /\ resp.body.call.request.messages[1].role = "model"
  /\ resp.body.call.request.messages[2].role = "user"
  /\ resp.body.call.request.system = Some(get_system_prompt("loyal"))

\* The quarters of the first n messages' lengths, each rounded down, added.
RECURSIVE QuartersOfFirst(_, _)
QuartersOfFirst(messages, n) ==
  IF n = 0 THEN 0
  ELSE QuartersOfFirst(messages, n - 1) + (StrLen(messages[n].content) \div 4)

\* C25 as stated: the Gemini adapter reports as inputTokens the character
\* count of the request messages divided by 4, rounded down.
C25_AsStated ==
  (resp.op = "adapter" /\ resp.body.call.handler = "gemini" /\ resp.status = 200)
  => resp.body.result.input_tokens = TotalChars(resp.body.call.messages) \div 4

\* C25: the Gemini adapter, whatever counts the vendor's answer carries,
\* reports as inputTokens the sum over the request messages of each
\* message's character count divided by 4 rounded down (at most the quarter
\* of all characters together), and as outputTokens the character count of
\* the response content divided by 4 rounded down: both are integers.
C25_GeminiEstimates ==
  (resp.op = "adapter" /\ resp.body.call.handler = "gemini" /\ resp.status = 200)
  => LET messages == resp.body.call.messages
         result == resp.body.result
     IN /\ result.input_tokens = QuartersOfFirst(messages, Len(messages))
        /\ result.input_tokens \in Nat
        /\ result.input_tokens <= TotalChars(messages) \div 4
        /\ result.output_tokens = StrLen(resp.body.vendor.content) \div 4
        /\ result.output_tokens \in Nat
        /\ result.content = resp.body.vendor.content

\* C25's case: the Gemini adapter has answered for three messages of 3, 5
\* and 2 characters and a reply of 15 characters: 1 and 3 tokens.
C25_Witness ==
  /\ resp.op = "adapter"
  /\ resp.body.call.handler = GEMINI
  /\ resp.status = 200
  /\ Len(resp.body.call.messages) = 3
  /\ StrLen(resp.body.vendor.content) = 15
  /\ resp.body.result.input_tokens = 1
  /\ resp.body.result.output_tokens = 3

\* C26: in every reachable state, with turns on one session overlapping or
\* not, each session's history has even length and is made of pairs: a user
\* message directly followed by an assistant reply, both appended by the
\* same turn (same user, the reply stamped no earlier than the message and
\* both later than every pair before), and no two pairs by one turn.
C26_HistoryInPairs ==
  \A sid \in DOMAIN messages_db :
    LET msgs == messages_db[sid]
    IN /\ Len(msgs) % 2 = 0
       /\ Len(appended_by[sid]) = Len(msgs)
       /\ \A k \in 1..(Len(msgs) \div 2) :
            /\ msgs[2 * k - 1].role = "user"
            /\ msgs[2 * k].role = "assistant"
            /\ msgs[2 * k - 1].timestamp <= msgs[2 * k].timestamp
            /\ appended_by[sid][2 * k - 1] = appended_by[sid][2 * k]
            /\ \A j \in 1..(k - 1) : msgs[2 * j].timestamp < msgs[2 * k - 1].timestamp

\* C26's case: a turn on session s1 that started on the empty history is
\* still at its vendor call while another turn on s1, started meanwhile, has
\* succeeded and appended its pair, the reply stamped later than the message.
C26_Witness ==
  /\ "s1" \in DOMAIN messages_db
  /\ Len(messages_db["s1"]) = 2
  /\ messages_db["s1"][1].timestamp < messages_db["s1"][2].timestamp
  /\ resp.op = "chat"
  /\ resp.status = 200
  /\ \E r \in Requests :
       /\ turns[r].pc = "await"
       /\ turns[r].session_id = "s1"
       /\ Len(turns[r].call.messages) = 1
       /\ turns[r].user_id # appended_by["s1"][1]

\* C27 as stated: a turn that does not succeed creates no session record, so
\* once no turn is in flight every session in the store has a non-empty
\* history (it was created by a turn that succeeded).
C27_NoSessionFromFailedTurn ==
  InFlight = 0
  => \A i \in 1..Len(sessions_db) : Len(messages_db[sessions_db[i].id]) > 0

\* C28 as stated: every provider's default model has an entry of its own in
\* the pricing table, so a PRO turn that leaves the model to the adapter is
\* charged at the prices of that entry.
C28_DefaultModelsPriced ==
  [][\A r \in Requests :
       (Succeeded(r) /\ turns[r].tier = PRO /\ turns[r].call.model = None)
         => /\ turns[r].call.request.model = DEFAULT_MODELS[turns[r].provider]
            /\ InPricingTable(turns[r].provider, turns[r].call.request.model)]_vars

\* C29: no chat request is answered 404; a turn that names a session id
\* under which no session exists starts all the same, and the step adds to
\* the store one session with exactly that id, owned by the requester and
\* with an empty history, and sends the vendor the user message alone, as
\* the first turn of a session does; when the turn succeeds the response
\* returns that id.
C29_NamedSessionCreated ==
  [][/\ resp'.op = "chat" => resp'.status # 404
     /\ \A r \in Requests :
          (Started(r) /\ ~Unnamed(turns'[r])
             /\ ~HasSession(sessions_db, turns'[r].message_session_id[1]))
            => LET sid == turns'[r].message_session_id[1]
               IN /\ turns'[r].session_id = sid
                  /\ Len(sessions_db') = Len(sessions_db) + 1
                  /\ sessions_db'[Len(sessions_db')] = [id |-> sid, user_id |-> turns'[r].user_id]
                  /\ \A i \in 1..Len(sessions_db) : sessions_db'[i] = sessions_db[i]
                  /\ messages_db'[sid] = <<>>
                  /\ turns'[r].call.messages
                       = <<[role |-> "user", content |-> turns'[r].content]>>
     /\ \A r \in Requests :
          Succeeded(r) => resp'.body.session_id = turns[r].session_id]_vars

\* C29's case: a user named a session id of the client's own making while
\* the store held only a generated session of the other user; the session
\* now exists under that id, owned by the requester, and the turn is at its
\* vendor call.
C29_Witness ==
  /\ resp.op = "chat"
  /\ resp.status = 0
  /\ turns[resp.body.slot].message_session_id = Some("s1")
  /\ Len(sessions_db) = 2
  /\ sessions_db[1].id \in Uuids
  /\ sessions_db[1].user_id # resp.user
  /\ sessions_db[2] = [id |-> "s1", user_id |-> resp.user]
  /\ messages_db["s1"] = <<>>

\* C30: register for a user id that has a record answers with that record
\* and changes nothing -- not the tier, messages_today, tokens_this_month or
\* last_message_date, nor what is on disk; and a record that appears in
\* users_db, by register or by auto-provisioning in chat or get_me, has tier
\* FREE and both counters 0.  No record is ever removed.
C30_RegisterIdempotent ==
  [][/\ (resp'.op = "register" /\ resp'.user \in DOMAIN users_db)
          => /\ UNCHANGED <<users_db, sessions_db, messages_db, disk, turns>>
             /\ resp'.body.user = users_db[resp'.user]
     /\ \A u \in DOMAIN users_db' \ DOMAIN users_db :
          /\ users_db'[u].tier = FREE
          /\ users_db'[u].messages_today = 0
          /\ users_db'[u].tokens_this_month = 0
     /\ DOMAIN users_db \subseteq DOMAIN users_db']_vars

\* C30's case: register has just been called for a user who is PRO and has
\* counted a message and tokens today, and answered with that record.
C30_Witness ==
  /\ resp.op = "register"
  /\ resp.body.message = "User already exists"
  /\ users_db[resp.user].tier = PRO
  /\ users_db[resp.user].messages_today > 0
  /\ users_db[resp.user].tokens_this_month > 0
  /\ users_db[resp.user].last_message_date # None
  /\ resp.body.user = users_db[resp.user]

\* C31: a settings update changes nothing but, of a known user, those of
\* provider, key_mode and the four vendor keys that the request gives: a
\* given provider or key mode is stored as given and a given key without
\* the whitespace at its ends (a key of whitespace alone is not stored);
\* every other field of the user (tier, messages_today, tokens_this_month,
\* last_message_date among them), every other user, every session, every
\* message and every turn in flight stay as they were.  For a user without
\* a record it answers 404 and creates none, and a request with a key
\* shorter than 10 or longer than 200 characters is refused as invalid and
\* changes nothing either.
C31_SettingsFrame ==
  [][resp'.op = "update_settings"
     => LET u == resp'.user
            given == resp'.user_settings
            enums == {"provider", "key_mode"}
            keys == {"openai_key", "anthropic_key", "google_key", "xai_key"}
            valid == \A f \in keys :
                       given[f] = None \/ StrLen(given[f][1]) \in 10..200
            expected(f) ==
              IF f \in enums /\ given[f] # None THEN given[f][1]
              ELSE IF f \in keys /\ given[f] # None /\ ~IsBlank(given[f][1])
              THEN Some(strip(given[f][1]))
              ELSE users_db[u][f]
        IN /\ UNCHANGED <<sessions_db, messages_db, turns>>
           /\ DOMAIN users_db' = DOMAIN users_db
           /\ \A w \in DOMAIN users_db \ {u} : users_db'[w] = users_db[w]
           /\ IF ~valid
              THEN /\ resp'.status = 422
                   /\ UNCHANGED <<users_db, disk>>
              ELSE IF u \in DOMAIN users_db
              THEN /\ resp'.status = 200
                   /\ \A f \in DOMAIN users_db[u] : users_db'[u][f] = expected(f)
              ELSE /\ resp'.status = 404
                   /\ UNCHANGED <<users_db, disk>>]_vars

\* C31's case: a PRO user with a stored Anthropic key and a count of
\* messages and tokens has just stored an OpenAI key, given with whitespace
\* around it, and nothing else, while a turn of the user is at its vendor
\* call.
C31_Witness ==
  /\ resp.op = "update_settings"
  /\ resp.status = 200
  /\ resp.user_settings.openai_key # None
  /\ resp.user_settings.provider = None
  /\ users_db[resp.user].tier = PRO
  /\ users_db[resp.user].provider = ANTHROPIC
  /\ users_db[resp.user].anthropic_key # None
  /\ users_db[resp.user].openai_key = Some("sk-openai-user-1")
  /\ users_db[resp.user].openai_key # resp.user_settings.openai_key
  /\ users_db[resp.user].messages_today > 0
  /\ users_db[resp.user].tokens_this_month > 0
  /\ InFlight > 0

\* C32: no step -- a chat turn starting, returning or failing, the day
\* reset, a tier change, a settings update, a registration -- lowers a
\* user's tokens_this_month or removes the user; and the day reset, which a
\* turn makes when the stored date is not today's, sets messages_today to 0
\* and the date to today and leaves every other field, tokens_this_month
\* included.
C32_TokensNeverDecrease ==
  [][/\ \A u \in DOMAIN users_db :
          /\ u \in DOMAIN users_db'
          /\ users_db'[u].tokens_this_month >= users_db[u].tokens_this_month
     /\ \A u \in DOMAIN users_db :
          users_db'[u].last_message_date # users_db[u].last_message_date
            => /\ resp'.op = "chat"
               /\ users_db'[u].messages_today = 0
               /\ users_db'[u].last_message_date = Some(isoformat(today))
               /\ \A f \in DOMAIN users_db[u] \ {"messages_today", "last_message_date"} :
                    users_db'[u][f] = users_db[u][f]]_vars

\* C32's case: a turn that started on a new day has just reset the count
\* of a user who had counted messages and tokens the day before, and the
\* tokens are still there.
C32_Witness ==
  /\ resp.op = "chat"
  /\ resp.status = 0
  /\ turns[resp.body.slot].rollover
  /\ today > 0
  /\ rolled_from[resp.user] > 0
  /\ users_db[resp.user].messages_today = 0
  /\ users_db[resp.user].tokens_this_month > 0
  /\ users_db[resp.user].tokens_this_month = ok_tokens[resp.user]

====
